---------------------------- MODULE Spec2Model ----------------------------
(***************************************************************************)
(* Plugin lifecycle and dependency orchestration core of the plugin        *)
(* aggregator: the Process Supervisor (PluginProcessManager), the status   *)
(* slots of the Plugin Registry (PluginBridge) and the manifest sync       *)
(* protocol of the Dependency Synchronizer (DependencyManager).            *)
(***************************************************************************)
EXTENDS Integers, Sequences, FiniteSets, TLC

(***************************************************************************)
(* Bounds of the model.                                                    *)
(***************************************************************************)
\* number of plugins in the registry
NumPlugins == 1
\* number of pending single-shot timers of one kind for one plugin name
MaxTimers == 1
\* number of plugin directories that contribute constraints on one package
MaxContributors == 2
\* number of user requests waiting in the event queue of the main thread
MaxPosted == 1
\* number of finished scans whose result waits in the event queue
MaxScans == 1

\* plugin names
Plugins == 1..NumPlugins
\* "no plugin" where a plugin name is expected
NoName == 0
\* QProcess objects that can be tracked or alive at one time: one per plugin and
\* one more, so that a second process for a tracked name is representable
MaxHandles == NumPlugins + 1
Handles == 1..MaxHandles
\* value of processes[p] when p is not a key of the dict
NoProc == 0

\* exit codes reported by the finished notification (0, the allow-list, another)
ExitCodes == {0, 1, 2, 62097}
ExitStatuses == {"NormalExit", "CrashExit"}
\* QProcess.ProcessError kinds: the two the handler names, and all the others
ErrorKinds == {"FailedToStart", "Crashed", "Other"}
AliveStates == {"Starting", "Running"}

VARIABLES
    \* ---- ExceptionHandler ----
    exception_timestamps,      \* self.exception_timestamps
    max_exceptions_per_minute, \* self.max_exceptions_per_minute
    current_time,              \* time.time(), in seconds
    processedAt,               \* times of the exceptions processed so far
    lastHandled,               \* what the last handle_exception call did
    \* ---- ConfigManager ----
    config,                    \* self.config: section -> dict object (0 = no key)
    backup_config,             \* self._backup_config (None or a dict)
    heap,                      \* the section dicts: object -> key -> value
    config_file,               \* contents of config.toml
    cfgOp,                     \* the last ConfigManager operation and its result
    \* ---- PluginProcessManager ----
    processes,           \* self.processes: plugin name -> QProcess (NoProc = no key)
    process_info,        \* self.process_info: set of keys
    starting_processes,  \* self.starting_processes
    stopping_processes,  \* self.stopping_processes
    qstate,              \* QProcess.state() of every QProcess object
    qname,               \* plugin name bound into the slots of a QProcess
    connected,           \* whether the slots of a QProcess are still connected
    checkTimers,         \* pending QTimer.singleShot(2000, _check_and_update_startup_status)
    verifyTimers,        \* pending QTimer.singleShot(1000, _verify_process_startup)
    stopCtx,             \* position of the main thread inside stop_plugin
    \* ---- PluginBridge ----
    status,              \* plugins_info[..]['status'] per plugin name
    \* ---- observation of the last operation ----
    emitted,             \* signals emitted during the last operation, in order
    lastErr,             \* the last errorOccurred notification and what the handler did
    lastExit,            \* the last processFinished and how the bridge classified it
    op,                  \* the last operation
    result,              \* its return value: "True", "False", or "none"
    \* ---- DependencyManager.sync_dependencies_with_uv ----
    live,                \* envs/<env>/pyproject.toml
    temp,                \* envs/<env>/pyproject.toml.temp
    backup,              \* envs/<env>/pyproject.toml.backup
    pythonExists,        \* whether the environment's interpreter exists
    syncPc,              \* position inside sync_dependencies_with_uv
    syncArg,             \* resolved_deps of the call in flight
    syncPre,             \* content of the live manifest when the call began
    syncOutcome,         \* outcome of the external uv sync call
    syncEmitted,         \* dependencySyncStarted / dependencySyncCompleted of the call
    syncResult,          \* return value of the last call: "True", "False", or "none"
    syncActive,          \* number of sync_dependencies_with_uv calls that have not returned
    \* ---- VersionResolver and DependencyManager.resolve_dependencies ----
    resCall,             \* the function called, its arguments, whether it has returned
    resRet,              \* its return value (and the signals it emitted)
    \* ---- PluginBridge.start_plugin / install_plugin_dependencies ----
    brCall,              \* the request the main thread is in, or the last one: its steps
    hasDeps,             \* the plugins whose pyproject.toml declares dependencies
    posted,              \* user requests waiting in the event queue of the main thread
    \* ---- the plugins directory and the registry list of PluginBridge ----
    plugins_info,        \* self.plugins_info: the descriptors, in list order
    pluginDirs,          \* the entries of the plugins directory on disk
    scanPending,         \* pluginsScanned payloads emitted by a scanner, not yet delivered
    \* ---- ConfigBridge and PythonEnvironmentWorker ----
    envDirs,             \* the entries of the envs directory on disk
    envStore,            \* the "environments" table of the configuration store
    envCache,            \* ConfigBridge._environments_cache, once the attribute is assigned
    envMain,             \* position of the main thread in ConfigBridge.__init__, or "loop"
    envWorker,           \* position of the worker thread in PythonEnvironmentWorker.run
    envPending,          \* environmentListUpdated payloads queued for the main thread
    envRequests,         \* createEnvironmentRequested emissions queued for the slot
    envCall              \* the last environment operation, its steps and what it reported

supVars == <<processes, process_info, starting_processes, stopping_processes,
             qstate, qname, connected, checkTimers, verifyTimers, stopCtx,
             status, emitted, lastErr, lastExit, op, result>>
syncVars == <<live, temp, backup, pythonExists, syncPc, syncArg, syncPre,
              syncOutcome, syncEmitted, syncResult, syncActive>>
resVars == <<resCall, resRet>>
brVars == <<brCall, hasDeps, posted>>
regVars == <<plugins_info, pluginDirs, scanPending>>
envVars == <<envDirs, envStore, envCache, envMain, envWorker, envPending, envRequests,
             envCall>>
\* the variables of the plugin side
utilVars == <<exception_timestamps, max_exceptions_per_minute, current_time,
              processedAt, lastHandled, config, backup_config, heap, config_file,
              cfgOp>>
plugVars == <<supVars, syncVars, resVars, brVars, regVars, utilVars>>
vars == <<plugVars, envVars>>

\* no errorOccurred / no processFinished was handled during the last operation
NoErr == [valid |-> FALSE, plugin |-> 0, kind |-> "none", inTable |-> FALSE,
          pstate |-> "NotRunning", wasStarting |-> FALSE, wasStopping |-> FALSE,
          statusBefore |-> "stopped", escalated |-> FALSE]
NoExit == [valid |-> FALSE, plugin |-> 0, code |-> 0, status |-> "NormalExit",
           published |-> "stopped"]

(***************************************************************************)
(* The supervisor's state as one value, so that a handler and the          *)
(* callbacks nested in it compose as functions.                            *)
(***************************************************************************)
Sup ==
    [processes |-> processes, process_info |-> process_info,
     starting_processes |-> starting_processes,
     stopping_processes |-> stopping_processes,
     qstate |-> qstate, qname |-> qname, connected |-> connected,
     checkTimers |-> checkTimers, verifyTimers |-> verifyTimers,
     status |-> status, emitted |-> <<>>, lastErr |-> NoErr,
     lastExit |-> NoExit]

\* plugin_name in self.processes
InTable(S, p) == S.processes[p] # NoProc

\* process.state() of the tracked process; NotRunning when there is none
StateOf(S, p) == IF InTable(S, p) THEN S.qstate[S.processes[p]] ELSE "NotRunning"

\* PluginBridge._is_normal_exit
IsNormalExit(exit_code, exit_status) ==
    IF exit_status = "NormalExit" THEN TRUE
    ELSE IF exit_code = 0 THEN TRUE
    ELSE IF exit_code \in {1, 62097} THEN TRUE
    ELSE FALSE

\* PluginBridge._update_plugin_status
UpdatePluginStatus(S, p, st) ==
    [S EXCEPT !.status[p] = st,
              !.emitted = Append(@, <<"pluginStatusChanged", p, st>>)]

\* PluginBridge._on_plugin_process_started
OnPluginProcessStarted(S, p) == UpdatePluginStatus(S, p, "running")

\* PluginBridge._on_plugin_process_finished
OnPluginProcessFinished(S, p, exit_code, exit_status) ==
    LET normal == IsNormalExit(exit_code, exit_status)
        S1 == IF normal
              THEN UpdatePluginStatus(S, p, "stopped")
              ELSE LET E == UpdatePluginStatus(S, p, "error")
                   IN  [E EXCEPT !.emitted = Append(@, <<"pluginError", p>>)]
    IN  [S1 EXCEPT !.lastExit = [valid |-> TRUE, plugin |-> p, code |-> exit_code,
                                 status |-> exit_status,
                                 published |-> IF normal THEN "stopped" ELSE "error"]]

\* PluginBridge._on_plugin_process_error
OnPluginProcessError(S, p) ==
    LET E == UpdatePluginStatus(S, p, "error")
    IN  [E EXCEPT !.emitted = Append(@, <<"pluginError", p>>)]

\* Signal.emit of processStarted / processFinished / processError: the signal is
\* recorded and the bridge slot connected to it runs synchronously
EmitStarted(S, p) ==
    OnPluginProcessStarted([S EXCEPT !.emitted = Append(@, <<"processStarted", p>>)], p)
EmitFinished(S, p, exit_code, exit_status) ==
    OnPluginProcessFinished(
        [S EXCEPT !.emitted = Append(@, <<"processFinished", p, exit_code, exit_status>>)],
        p, exit_code, exit_status)
EmitError(S, p, msg) ==
    OnPluginProcessError([S EXCEPT !.emitted = Append(@, <<"processError", p, msg>>)], p)

\* _cleanup_process that leaves the plugin in the stopping-set
CleanupProcess_KeepsStopping(S, p) ==
    LET S1 == [S EXCEPT !.starting_processes = @ \ {p}]
        h  == S.processes[p]
        S2 == IF h # NoProc
              THEN [S1 EXCEPT !.connected[h] = FALSE,
                              !.qstate[h] = IF @ = "Running" THEN "NotRunning" ELSE @,
                              !.processes[p] = NoProc]
              ELSE S1
    IN  [S2 EXCEPT !.process_info = @ \ {p}]

\* _cleanup_process that leaves the plugin's entry in the metadata table
CleanupProcess_KeepsMetadata(S, p) ==
    LET S1 == [S EXCEPT !.starting_processes = @ \ {p},
                        !.stopping_processes = @ \ {p}]
        h  == S.processes[p]
    IN  IF h # NoProc
        THEN [S1 EXCEPT !.connected[h] = FALSE,
                        !.qstate[h] = IF @ = "Running" THEN "NotRunning" ELSE @,
                        !.processes[p] = NoProc]
        ELSE S1

\* _cleanup_process that leaves the plugin in the starting-set
CleanupProcess_KeepsStarting(S, p) ==
    LET S1 == [S EXCEPT !.stopping_processes = @ \ {p}]
        h  == S.processes[p]
        S2 == IF h # NoProc
              THEN [S1 EXCEPT !.connected[h] = FALSE,
                              !.qstate[h] = IF @ = "Running" THEN "NotRunning" ELSE @,
                              !.processes[p] = NoProc]
              ELSE S1
    IN  [S2 EXCEPT !.process_info = @ \ {p}]

\* PluginProcessManager._cleanup_process
CleanupProcess(S, p) ==
    LET S1 == [S EXCEPT !.starting_processes = @ \ {p},
                        !.stopping_processes = @ \ {p}]
        h  == S.processes[p]
        S2 == IF h # NoProc
              THEN [S1 EXCEPT !.connected[h] = FALSE,
                              \* a process still Running is terminated, then killed
                              !.qstate[h] = IF @ = "Running" THEN "NotRunning" ELSE @,
                              !.processes[p] = NoProc]
              ELSE S1
    IN  [S2 EXCEPT !.process_info = @ \ {p}]

\* PluginProcessManager.get_plugin_status
GetPluginStatus(S, p) ==
    IF p \in S.starting_processes THEN "starting"
    ELSE IF p \in S.stopping_processes THEN "stopping"
    ELSE IF InTable(S, p)
         THEN IF StateOf(S, p) = "Running" THEN "running"
              ELSE IF StateOf(S, p) = "Starting" THEN "starting"
              ELSE "stopped"
         ELSE "stopped"

\* _on_process_error without the "still running or starting" check of lines 446-449
ErrorEscalates_NoAliveCheck(S, p, kind) ==
    IF InTable(S, p) /\ StateOf(S, p) = "Starting" THEN FALSE
    ELSE IF p \in S.stopping_processes THEN FALSE
    ELSE IF InTable(S, p)
         THEN IF kind \in {"FailedToStart", "Crashed"}
                 /\ StateOf(S, p) # "NotRunning" THEN FALSE
              ELSE TRUE
         ELSE FALSE

\* _on_process_error without the stopping-set check of lines 434-437
ErrorEscalates_NoStoppingCheck(S, p, kind) ==
    IF InTable(S, p) /\ StateOf(S, p) = "Starting" THEN FALSE
    ELSE IF InTable(S, p)
         THEN IF StateOf(S, p) \in {"Running", "Starting"} THEN FALSE
              ELSE IF kind \in {"FailedToStart", "Crashed"}
                      /\ StateOf(S, p) # "NotRunning" THEN FALSE
              ELSE TRUE
         ELSE FALSE

\* the control flow of _on_process_error up to its last two lines: TRUE when the
\* notification is taken as a genuine failure
ErrorEscalates(S, p, kind) ==
    IF InTable(S, p) /\ StateOf(S, p) = "Starting" THEN FALSE
    ELSE IF p \in S.stopping_processes THEN FALSE
    ELSE IF InTable(S, p)
         THEN IF StateOf(S, p) \in {"Running", "Starting"} THEN FALSE
              ELSE IF kind \in {"FailedToStart", "Crashed"}
                      /\ StateOf(S, p) # "NotRunning" THEN FALSE
              ELSE TRUE
         ELSE FALSE

\* PluginProcessManager._on_process_error
OnProcessError(S, p, kind) ==
    LET esc == ErrorEscalates(S, p, kind)
        S1  == [S EXCEPT !.lastErr =
                   [valid |-> TRUE, plugin |-> p, kind |-> kind,
                    inTable |-> InTable(S, p), pstate |-> StateOf(S, p),
                    wasStarting |-> p \in S.starting_processes,
                    wasStopping |-> p \in S.stopping_processes,
                    statusBefore |-> GetPluginStatus(S, p),
                    escalated |-> esc]]
    IN  IF esc THEN CleanupProcess(EmitError(S1, p, "process_error"), p) ELSE S1

\* PluginProcessManager._on_process_started
OnProcessStarted(S, p) ==
    EmitStarted([S EXCEPT !.starting_processes = @ \ {p},
                          !.verifyTimers[p] = @ + 1], p)

\* PluginProcessManager._on_process_finished
OnProcessFinished(S, p, exit_code, exit_status) ==
    IF ~InTable(S, p) THEN S
    ELSE CleanupProcess(EmitFinished(S, p, exit_code, exit_status), p)

\* PluginProcessManager._check_and_update_startup_status
CheckAndUpdateStartupStatus(S, p) ==
    IF ~InTable(S, p) THEN S
    ELSE IF StateOf(S, p) = "Running" /\ p \in S.starting_processes
         THEN EmitStarted([S EXCEPT !.starting_processes = @ \ {p}], p)
         ELSE S

\* PluginProcessManager._verify_process_startup
VerifyProcessStartup(S, p) ==
    IF ~InTable(S, p) THEN S
    ELSE IF StateOf(S, p) = "Running" THEN EmitStarted(S, p)
         ELSE EmitError(S, p, "verify_failed")

(***************************************************************************)
(* Operations of the Process Supervisor.                                   *)
(***************************************************************************)
\* no request of the bridge in progress, and none made yet
BrIdle == [at |-> "idle", fn |-> "none", plugin |-> NoName, steps |-> <<>>,
           error |-> "none", result |-> "none"]

\* a main thread that takes the next event while a slot of the bridge has not
\* returned
Idle_DuringBridgeSlot == stopCtx.at = "idle"

\* the main thread is in its event loop: neither inside stop_plugin nor inside
\* a slot of the bridge
Idle == stopCtx.at = "idle" /\ brCall.at = "idle"

\* QProcess objects that are neither tracked nor backed by a live OS process
FreeHandles(S) ==
    {h \in Handles : S.qstate[h] = "NotRunning" /\ \A p \in Plugins : S.processes[p] # h}

\* QProcess(self): a new QProcess object; which free object it is does not
\* matter, the plugin's own slot is taken when it is free
NewHandle(S, p) ==
    IF p \in FreeHandles(S) THEN p
    ELSE CHOOSE h \in FreeHandles(S) : \A g \in FreeHandles(S) : h <= g

\* the pending timers stay within the bound of the model
Fits(S) ==
    \A p \in Plugins : S.checkTimers[p] <= MaxTimers /\ S.verifyTimers[p] <= MaxTimers

\* a QProcess object that is dead and untracked receives nothing any more: its
\* slot bindings are forgotten
Released(S) ==
    [S EXCEPT !.qname = [h \in Handles |-> IF h \in FreeHandles(S) THEN NoName ELSE @[h]],
              !.connected = [h \in Handles |-> IF h \in FreeHandles(S) THEN FALSE ELSE @[h]]]

\* the fields of R become the next state of the supervisor
SupAssign(R, o, res, ctx) ==
    /\ Fits(R)
    /\ processes' = R.processes
    /\ process_info' = R.process_info
    /\ starting_processes' = R.starting_processes
    /\ stopping_processes' = R.stopping_processes
    /\ qstate' = R.qstate
    /\ qname' = Released(R).qname
    /\ connected' = Released(R).connected
    /\ checkTimers' = R.checkTimers
    /\ verifyTimers' = R.verifyTimers
    /\ status' = R.status
    /\ emitted' = R.emitted
    /\ lastErr' = R.lastErr
    /\ lastExit' = R.lastExit
    /\ op' = o
    /\ result' = res
    /\ stopCtx' = ctx

\* the state reached by an operation of the supervisor that the event loop
\* dispatched
SupNext(R, o, res, ctx) ==
    /\ SupAssign(R, o, res, ctx)
    /\ brCall' = BrIdle
    /\ UNCHANGED <<syncVars, resVars, hasDeps, posted, regVars, envVars, utilVars>>

IdleCtx == [at |-> "idle", plugin |-> NoName, handle |-> NoProc, sent |-> <<>>,
            bridge |-> FALSE]

\* outcomes of QProcess.start(): spawn rejected at once (errorOccurred emitted
\* inside start()), spawned and still Starting, or already Running on return
\* with the started signal emitted inside start() or not emitted at all
StartOutcomes == {"failed", "starting", "running_notified", "running_silent"}

\* start_plugin without its guard
StartGuardRejects_NoGuard(S, p) == FALSE

\* start_plugin guarding on is_plugin_running instead of the process table
StartGuardRejects_RunningOnly(S, p) == InTable(S, p) /\ StateOf(S, p) = "Running"

\* start_plugin, lines 83-86: the guard on the process table
StartGuardRejects(S, p) == InTable(S, p)

\* start_plugin, lines 88-161, for a plugin that passed the guard
StartPluginBody(S, p, outcome) ==
    LET h  == NewHandle(S, p)
        S1 == [S EXCEPT !.process_info = @ \cup {p},
                        !.starting_processes = @ \cup {p},
                        !.connected[h] = TRUE,
                        !.qname[h] = p]
    IN  IF outcome = "failed"
        THEN \* errorOccurred(FailedToStart) reaches _on_process_error inside start()
             LET S2 == OnProcessError([S1 EXCEPT !.qstate[h] = "NotRunning"],
                                      p, "FailedToStart")
             IN  CleanupProcess(EmitError(S2, p, "start_failed"), p)
        ELSE LET S2 == IF outcome = "starting"
                       THEN [S1 EXCEPT !.qstate[h] = "Starting"]
                       ELSE IF outcome = "running_notified"
                       THEN OnProcessStarted([S1 EXCEPT !.qstate[h] = "Running"], p)
                       ELSE [S1 EXCEPT !.qstate[h] = "Running"]
             IN  [S2 EXCEPT !.processes[p] = h,
                            !.checkTimers[p] = @ + 1]

\* PluginProcessManager.start_plugin
StartPlugin(p, outcome) ==
    /\ Idle
    /\ IF StartGuardRejects(Sup, p)
       THEN SupNext(EmitError(Sup, p, "already_running"), <<"start_plugin", p>>,
                    "False", IdleCtx)
       ELSE /\ FreeHandles(Sup) # {}
            /\ SupNext(StartPluginBody(Sup, p, outcome), <<"start_plugin", p>>,
                       IF outcome = "failed" THEN "False" ELSE "True", IdleCtx)

\* the 2 s fallback timer armed by start_plugin fires
CheckTimerFire(p) ==
    /\ Idle
    /\ checkTimers[p] > 0
    /\ SupNext(CheckAndUpdateStartupStatus([Sup EXCEPT !.checkTimers[p] = @ - 1], p),
               <<"check_timer", p>>, "none", IdleCtx)

\* the 1 s verification timer armed by _on_process_started fires
VerifyTimerFire(p) ==
    /\ Idle
    /\ verifyTimers[p] > 0
    /\ SupNext(VerifyProcessStartup([Sup EXCEPT !.verifyTimers[p] = @ - 1], p),
               <<"verify_timer", p>>, "none", IdleCtx)

\* QProcess reaches Running; the started signal reaches its slot, or is lost
ProcStarted(S, h, delivered) ==
    LET S1 == [S EXCEPT !.qstate[h] = "Running"]
    IN  IF S.connected[h] /\ delivered THEN OnProcessStarted(S1, S.qname[h]) ELSE S1

\* QProcess fails to start: state NotRunning, then errorOccurred(FailedToStart)
ProcStartFailed(S, h) ==
    LET S1 == [S EXCEPT !.qstate[h] = "NotRunning"]
    IN  IF S.connected[h] THEN OnProcessError(S1, S.qname[h], "FailedToStart") ELSE S1

\* the OS process ends: state NotRunning, errorOccurred(Crashed) on a crash exit,
\* then finished(exit_code, exit_status), each to the slots still connected
ProcExited(S, h, exit_code, exit_status) ==
    LET S1 == [S EXCEPT !.qstate[h] = "NotRunning"]
        S2 == IF S1.connected[h] /\ exit_status = "CrashExit"
              THEN OnProcessError(S1, S.qname[h], "Crashed") ELSE S1
    IN  IF S2.connected[h]
        THEN OnProcessFinished(S2, S.qname[h], exit_code, exit_status) ELSE S2

\* errorOccurred of another kind (read, write, unknown) on a live process
ProcErrorOther(S, h) ==
    IF S.connected[h] THEN OnProcessError(S, S.qname[h], "Other") ELSE S

\* OS notifications dispatched by the event loop
OSStarted(h, delivered) ==
    /\ Idle
    /\ qstate[h] = "Starting"
    /\ SupNext(ProcStarted(Sup, h, delivered), <<"os_started", qname[h]>>, "none", IdleCtx)

OSStartFailed(h) ==
    /\ Idle
    /\ qstate[h] = "Starting"
    /\ SupNext(ProcStartFailed(Sup, h), <<"os_error", qname[h]>>, "none", IdleCtx)

OSExited(h, exit_code, exit_status) ==
    /\ Idle
    /\ qstate[h] = "Running"
    /\ SupNext(ProcExited(Sup, h, exit_code, exit_status),
               <<"os_finished", qname[h]>>, "none", IdleCtx)

OSErrorOther(h) ==
    /\ Idle
    /\ qstate[h] \in AliveStates
    /\ connected[h]
    /\ SupNext(ProcErrorOther(Sup, h), <<"os_error", qname[h]>>, "none", IdleCtx)

\* stop_plugin for an untracked plugin that reports the rejection as a signal
StopPluginNotTracked_Signals(S, p) == EmitError(S, p, "not_running")

\* stop_plugin, lines 176-178, for a plugin that is not in the process table:
\* a warning is logged and nothing else happens
StopPluginNotTracked(S, p) == S

\* stop_plugin, lines 174-187: guard, stopping-set, terminate(); the call then
\* blocks in waitForFinished(5000)
StopPluginCall(p) ==
    /\ Idle
    /\ IF ~InTable(Sup, p)
       THEN SupNext(StopPluginNotTracked(Sup, p), <<"stop_plugin", p>>, "False", IdleCtx)
       ELSE SupNext([Sup EXCEPT !.stopping_processes = @ \cup {p}],
                    <<"stop_wait", p>>, "none",
                    [at |-> "wait", plugin |-> p, handle |-> processes[p],
                     sent |-> <<"terminate">>, bridge |-> FALSE])

\* inside waitForFinished: a process still Starting is waited for first
StopWaitStarted(delivered) ==
    /\ stopCtx.at = "wait"
    /\ qstate[stopCtx.handle] = "Starting"
    /\ SupNext(ProcStarted(Sup, stopCtx.handle, delivered),
               <<"stop_wait", stopCtx.plugin>>, "none", stopCtx)

\* inside waitForFinished(5000): the start fails, the wait returns false and
\* lines 190-194 send kill() to the process that never ran
StopWaitStartFailed ==
    /\ stopCtx.at = "wait"
    /\ qstate[stopCtx.handle] = "Starting"
    /\ SupNext(ProcStartFailed(Sup, stopCtx.handle),
               <<"stop_wait", stopCtx.plugin>>, "none",
               [stopCtx EXCEPT !.at = "cleanup", !.sent = Append(@, "kill")])

\* inside waitForFinished(5000): the process ends after terminate()
StopWaitExited(exit_code, exit_status) ==
    /\ stopCtx.at = "wait"
    /\ qstate[stopCtx.handle] = "Running"
    /\ SupNext(ProcExited(Sup, stopCtx.handle, exit_code, exit_status),
               <<"stop_wait", stopCtx.plugin>>, "none",
               [stopCtx EXCEPT !.at = "cleanup"])

\* stop_plugin, lines 190-194: the wait times out, kill(), waitForFinished(1000);
\* the death is notified inside that wait, or only noticed after the slots are gone
StopWaitKill(exit_code, delivered) ==
    /\ stopCtx.at = "wait"
    /\ qstate[stopCtx.handle] \in AliveStates
    /\ SupNext(IF delivered
               THEN ProcExited(Sup, stopCtx.handle, exit_code, "CrashExit")
               ELSE [Sup EXCEPT !.qstate[stopCtx.handle] = "NotRunning"],
               <<"stop_wait", stopCtx.plugin>>, "none",
               [stopCtx EXCEPT !.at = "cleanup", !.sent = Append(@, "kill")])

\* stop_plugin, lines 196-201: _cleanup_process and return True
StopFinish ==
    /\ \/ stopCtx.at = "cleanup"
       \/ stopCtx.at = "wait" /\ qstate[stopCtx.handle] = "NotRunning"
    /\ SupNext(IF stopCtx.bridge
               THEN \* PluginBridge.stop_plugin, lines 293-296: success, status stopped
                    UpdatePluginStatus(CleanupProcess(Sup, stopCtx.plugin),
                                       stopCtx.plugin, "stopped")
               ELSE CleanupProcess(Sup, stopCtx.plugin),
               <<"stop_plugin", stopCtx.plugin>>, "True", IdleCtx)

(***************************************************************************)
(* The specification of the Process Supervisor.                            *)
(***************************************************************************)
\* no environment manifest and no sync call: the state of the synchronizer
\* after construction
SyncInitIdle ==
    /\ live = [exists |-> FALSE, content |-> <<>>]
    /\ temp = [exists |-> FALSE, content |-> <<>>]
    /\ backup = [exists |-> FALSE, content |-> <<>>]
    /\ pythonExists = TRUE /\ syncPc = "idle" /\ syncArg = <<>>
    /\ syncPre = [exists |-> FALSE, content |-> <<>>]
    /\ syncOutcome = "none" /\ syncEmitted = <<>>
    /\ syncResult = "none"
    /\ syncActive = 0

SupInit ==
    /\ processes = [p \in Plugins |-> NoProc]
    /\ process_info = {}
    /\ starting_processes = {}
    /\ stopping_processes = {}
    /\ qstate = [h \in Handles |-> "NotRunning"]
    /\ qname = [h \in Handles |-> NoName]
    /\ connected = [h \in Handles |-> FALSE]
    /\ checkTimers = [p \in Plugins |-> 0]
    /\ verifyTimers = [p \in Plugins |-> 0]
    /\ stopCtx = IdleCtx
    /\ status = [p \in Plugins |-> "stopped"]
    /\ emitted = <<>>
    /\ lastErr = NoErr
    /\ lastExit = NoExit
    /\ op = <<"init", NoName>>
    /\ result = "none"

\* the entries of the plugins directory: one per plugin and one more; the name
\* of directory d is d
Dirs == 1..(NumPlugins + 1)

\* an entry of the plugins directory: whether it is a directory, whether its
\* pyproject.toml has a [plugin-metadata] table, and the name that table gives
\* (the directory's own name when the table has no name key)
DirEntry(exists, metadata, name) == [exists |-> exists, metadata |-> metadata, name |-> name]
NoDirEntry(d) == DirEntry(FALSE, FALSE, d)

\* a descriptor of the registry list: plugin_info['name'], plugin_info['path']
Descriptor(name, path) == [name |-> name, path |-> path]

\* the registry after the first scan of a plugins directory that holds one
\* directory per plugin, each declaring its own name
RegInitScanned ==
    /\ plugins_info = [p \in Plugins |-> Descriptor(p, p)]
    /\ pluginDirs = [d \in Dirs |-> IF d \in Plugins THEN DirEntry(TRUE, TRUE, d)
                                                     ELSE NoDirEntry(d)]
    /\ scanPending = <<>>

\* the name currentEnvironmentName falls back to when the store has none
DefaultEnvName == "tuleaj-plugin-aggregator"
\* the names of the entries of the envs directory
EnvNames == {DefaultEnvName, "dev"}
\* environments.current is not in the store
NoEnv == ""

\* an entry of the envs directory: whether it exists, what its pyproject.toml
\* is ("none", "generated" by create_environment, or "other") and whether its
\* .venv with the interpreter exists
EnvDir(exists, manifest, venv) == [exists |-> exists, manifest |-> manifest, venv |-> venv]
NoEnvDir == EnvDir(FALSE, "none", FALSE)

\* an environment descriptor: env_info["name"], env_info["is_active"]
EnvInfo(name, is_active) == [name |-> name, is_active |-> is_active]

\* no environment operation yet
NoEnvCall == [fn |-> "none", name |-> NoEnv, steps |-> <<>>, success |-> "none",
              msg |-> "none"]

\* the environment side at rest: one complete environment that is the current
\* one, construction over, the worker thread finished
EnvInitIdle ==
    /\ envDirs = [n \in EnvNames |-> IF n = DefaultEnvName
                                     THEN EnvDir(TRUE, "other", TRUE) ELSE NoEnvDir]
    /\ envStore = [current |-> DefaultEnvName,
                   scanned |-> <<EnvInfo(DefaultEnvName, TRUE)>>]
    /\ envCache = [set |-> TRUE, list |-> <<EnvInfo(DefaultEnvName, TRUE)>>]
    /\ envMain = "loop"
    /\ envWorker = [pc |-> "finished", todo |-> <<>>, acc |-> <<>>]
    /\ envPending = <<>>
    /\ envRequests = <<>>
    /\ envCall = NoEnvCall

(***************************************************************************)
(* ExceptionHandler and ConfigManager: values and the state at rest.       *)
(***************************************************************************)
\* the limit set at construction (self.max_exceptions_per_minute = 10), scaled
DefaultMaxExceptions == 2
\* greatest limit passed to set_max_exceptions_per_minute
MaxLimit == 2
\* seconds between two readings of the clock
TickSeconds == 20
\* the last reading of the clock
MaxTime == 120
\* length of the window of _check_exception_rate_limit, in seconds
WindowSeconds == 60
\* number of registered error callbacks (self.error_callbacks)
NumCallbacks == 1

\* nothing handled yet
NotHandled == [called |-> FALSE, logged |-> FALSE, signalled |-> FALSE,
               callbacks |-> 0, warned |-> FALSE]

\* top-level keys of the configuration
CfgSections == {"app", "custom"}
\* keys inside a section
CfgKeys == {"name"}
\* values of a key; NoKey where the dict has no such key
CfgValues == {"a", "b"}
NoKey == "nokey"
\* dict objects
NumRefs == 2 * Cardinality(CfgSections) + 1
Refs == 1..NumRefs
\* "no such top-level key"
NoRef == 0
\* the empty dict
EmptyDict == [k \in CfgKeys |-> NoKey]
\* the section dict of default_config: the object and its contents
DefaultAppRef == 1
DefaultAppDict == [k \in CfgKeys |-> "a"]
\* self.default_config = self._get_default_config(): "app" is a section of it,
\* "custom" is not
default_config == [s \in CfgSections |-> IF s = "app" THEN DefaultAppRef ELSE NoRef]
\* a file that does not exist
NoFile == [exists |-> FALSE, data |-> [s \in CfgSections |-> [has |-> FALSE, d |-> EmptyDict]]]
\* no ConfigManager operation yet
NoCfgOp == [name |-> "none", changed |-> FALSE, ok |-> FALSE]

\* ExceptionHandler.__init__
ExcInitIdle ==
    /\ exception_timestamps = <<>>
    /\ max_exceptions_per_minute = DefaultMaxExceptions
    /\ current_time = 0
    /\ processedAt = <<>>
    /\ lastHandled = NotHandled

\* ConfigManager.__init__, no config.toml on the disk
CfgInitIdle ==
    /\ config = [s \in CfgSections |-> NoRef]
    /\ backup_config = [none |-> TRUE, d |-> [s \in CfgSections |-> NoRef]]
    /\ heap = [r \in Refs |-> IF r = DefaultAppRef THEN DefaultAppDict ELSE EmptyDict]
    /\ config_file = NoFile
    /\ cfgOp = NoCfgOp

\* the exception handler and the configuration store at rest
UtilInitIdle == ExcInitIdle /\ CfgInitIdle

\* no request to the bridge yet; every plugin declares dependencies
BrInitIdle ==
    /\ brCall = BrIdle
    /\ hasDeps = Plugins
    /\ posted = <<>>
    /\ RegInitScanned
    /\ EnvInitIdle

\* no resolver call
ResInitIdle ==
    /\ resCall = [fn |-> "none", args |-> <<>>, done |-> FALSE]
    /\ resRet = <<>>

Init == SupInit /\ UtilInitIdle /\ SyncInitIdle /\ ResInitIdle /\ BrInitIdle

Next ==
    \/ \E p \in Plugins, o \in StartOutcomes : StartPlugin(p, o)
    \/ \E p \in Plugins : StopPluginCall(p)
    \/ \E d \in BOOLEAN : StopWaitStarted(d)
    \/ StopWaitStartFailed
    \/ \E c \in ExitCodes, s \in ExitStatuses : StopWaitExited(c, s)
    \/ \E c \in ExitCodes, d \in BOOLEAN : StopWaitKill(c, d)
    \/ StopFinish
    \/ \E p \in Plugins : CheckTimerFire(p)
    \/ \E p \in Plugins : VerifyTimerFire(p)
    \/ \E h \in Handles, d \in BOOLEAN : OSStarted(h, d)
    \/ \E h \in Handles : OSStartFailed(h)
    \/ \E h \in Handles, c \in ExitCodes, s \in ExitStatuses : OSExited(h, c, s)
    \/ \E h \in Handles : OSErrorOther(h)

Spec == Init /\ [][Next]_vars

(***************************************************************************)
(* The supervisor under the scheduling the event loop guarantees: a timer  *)
(* that is armed fires, a process that is Starting either starts or fails  *)
(* to start, and a stop_plugin call in progress runs to its end.  Nothing  *)
(* makes a running process exit, and nothing makes the user act.           *)
(***************************************************************************)
TimersFire == \E p \in Plugins : CheckTimerFire(p) \/ VerifyTimerFire(p)
StartupResolves == \E h \in Handles : (\E d \in BOOLEAN : OSStarted(h, d)) \/ OSStartFailed(h)
StopProceeds ==
    \/ \E d \in BOOLEAN : StopWaitStarted(d)
    \/ StopWaitStartFailed
    \/ \E c \in ExitCodes, d \in BOOLEAN : StopWaitKill(c, d)
    \/ StopFinish

FairSpec ==
    /\ Init /\ [][Next]_vars
    /\ WF_vars(TimersFire)
    /\ WF_vars(StartupResolves)
    /\ WF_vars(StopProceeds)

(***************************************************************************)
(* Properties of the Process Supervisor.                                   *)
(***************************************************************************)
Range(f) == {f[i] : i \in DOMAIN f}

\* C1: in every reachable state there is at most one ManagedProcess per plugin
\* name: at most one live OS process was spawned for the name, and it is the one
\* the process table tracks
LiveHandles(p) == {h \in Handles : qname[h] = p /\ qstate[h] \in AliveStates}
C1_AtMostOneManagedProcess ==
    \A p \in Plugins :
        /\ Cardinality(LiveHandles(p)) <= 1
        /\ \A h \in LiveHandles(p) : processes[p] = h

\* a second start_plugin was just rejected while the plugin's only process lives
C1_Witness ==
    \E p \in Plugins :
        /\ op = <<"start_plugin", p>> /\ result = "False"
        /\ Cardinality(LiveHandles(p)) = 1
        /\ processes[p] \in LiveHandles(p)

\* C2: start_plugin for a name that already has an entry returns false, signals
\* "already running", spawns nothing and leaves the process table, the metadata
\* table, the starting-set and the stopping-set as they were
C2_SecondStartRejected ==
    [][\A p \in Plugins :
         (op' = <<"start_plugin", p>> /\ processes[p] # NoProc)
           => /\ result' = "False"
              /\ <<"processError", p, "already_running">> \in Range(emitted')
              /\ UNCHANGED <<processes, process_info, starting_processes,
                             stopping_processes, qstate, checkTimers>>]_vars

\* start_plugin was called for a tracked plugin and returned false
C2_Witness ==
    \E p \in Plugins :
        /\ op = <<"start_plugin", p>> /\ result = "False"
        /\ processes[p] # NoProc /\ p \in process_info
        /\ <<"processError", p, "already_running">> \in Range(emitted)

\* C6: an error notification for a plugin that is in the starting state while its
\* tracked process is alive (Starting or Running) is not escalated: no
\* processError is emitted and the plugin's entries stay in the tables
C6_ErrorWhileStartingIgnored ==
    (lastErr.valid /\ lastErr.inTable /\ lastErr.statusBefore = "starting"
       /\ lastErr.pstate \in AliveStates)
      => /\ ~lastErr.escalated
         /\ \A e \in Range(emitted) : e[1] # "processError"
         /\ processes[lastErr.plugin] # NoProc
         /\ lastErr.plugin \in process_info

\* an error notification arrived for a plugin of the starting-set whose process
\* was already Running (the started signal had not been delivered)
C6_Witness ==
    /\ lastErr.valid /\ lastErr.inTable /\ lastErr.wasStarting
    /\ lastErr.pstate = "Running"
    /\ op[1] = "os_error"

\* C7 as stated: in the starting window and in the stopping window alike, an
\* error notification for a tracked plugin is escalated exactly when the
\* process's reported state is NotRunning
InWindow(e) ==
    e.wasStarting \/ e.wasStopping \/ e.statusBefore \in {"starting", "stopping"}
C7_EscalatedIffNotRunning ==
    (lastErr.valid /\ lastErr.inTable /\ InWindow(lastErr))
      => (lastErr.escalated <=> lastErr.pstate = "NotRunning")

\* C7 as amended: in the stopping window the notification is always suppressed;
\* in the starting window (plugin not in the stopping-set) it is escalated
\* exactly when the reported state is NotRunning; escalation emits processError
\* and removes the plugin's entries
C7_EscalationInWindows ==
    (lastErr.valid /\ lastErr.inTable /\ InWindow(lastErr))
      => /\ lastErr.escalated <=> (lastErr.pstate = "NotRunning" /\ ~lastErr.wasStopping)
         /\ lastErr.escalated
              <=> <<"processError", lastErr.plugin, "process_error">> \in Range(emitted)
         /\ lastErr.escalated
              => /\ processes[lastErr.plugin] = NoProc
                 /\ lastErr.plugin \notin process_info
                 /\ lastErr.plugin \notin starting_processes

\* an error notification arrived inside stop_plugin for a process already
\* NotRunning, and was suppressed
C7_Witness ==
    /\ lastErr.valid /\ lastErr.inTable /\ lastErr.wasStopping
    /\ lastErr.pstate = "NotRunning" /\ ~lastErr.escalated
    /\ stopCtx.at = "cleanup"

\* C8: once start_plugin has returned true, a plugin whose process stays alive
\* leaves the starting-set (the Supervisor emits the running transition itself
\* when the started notification does not arrive)
ProcessAlive(p) == processes[p] # NoProc /\ qstate[processes[p]] \in AliveStates
C8_FallbackEmitsRunning ==
    \A p \in Plugins :
        (processes[p] # NoProc /\ p \in starting_processes)
          ~> (p \notin starting_processes \/ ~ProcessAlive(p))

\* C9: no plugin stays in a transitional state for ever: again and again it is
\* in a stable state or has a check timer armed
Transitional(p) == GetPluginStatus(Sup, p) \in {"starting", "stopping"}
C9_NoStuckTransitional ==
    \A p \in Plugins :
        []<>(~Transitional(p) \/ checkTimers[p] > 0 \/ verifyTimers[p] > 0)

\* C10: a finished notification is classified normal exactly when its exit code
\* is 0 or in the allow-list {1, 62097}, whatever the exit-status flag; any
\* other classification publishes status error and a plugin error event
C10_ExitClassification ==
    lastExit.valid
      => /\ lastExit.published = "stopped" <=> lastExit.code \in {0, 1, 62097}
         /\ lastExit.published = "error"
              <=> <<"pluginError", lastExit.plugin>> \in Range(emitted)

\* C11: stop_plugin for a plugin that is not in the process table returns false
\* and changes nothing: the process table, the metadata table, the starting-set
\* and the stopping-set (and every process, timer and status) are as before, and
\* no signal is emitted
C11_StopUntrackedNoEffect ==
    [][\A p \in Plugins :
         (stopCtx.at = "idle" /\ op' = <<"stop_plugin", p>> /\ processes[p] = NoProc)
           => /\ result' = "False"
              /\ emitted' = <<>>
              /\ stopCtx' = IdleCtx
              /\ UNCHANGED <<processes, process_info, starting_processes,
                             stopping_processes, qstate, connected, status,
                             checkTimers, verifyTimers>>]_vars

\* stop_plugin was just rejected for an untracked plugin while a timer of an
\* earlier start of that plugin is still pending
C11_Witness ==
    \E p \in Plugins :
        /\ op = <<"stop_plugin", p>> /\ result = "False"
        /\ processes[p] = NoProc
        /\ checkTimers[p] > 0

\* the plugin has no entry in the process table, the metadata table, the
\* starting-set and the stopping-set
Absent(p) ==
    /\ processes[p] = NoProc
    /\ p \notin process_info
    /\ p \notin starting_processes
    /\ p \notin stopping_processes

\* C12: stop_plugin for a tracked plugin, starting or running, first sends
\* terminate; it sends kill only after terminate, at most once, and only to a
\* process that had not finished when the graceful wait ended; on both paths it
\* returns true after cleanup, the plugin then being absent from the process
\* table, the metadata table, the starting-set and the stopping-set
C12_StopTerminatesThenCleans ==
    [][/\ (stopCtx.at = "idle" /\ stopCtx'.at # "idle")
            => /\ processes[stopCtx'.plugin] = stopCtx'.handle
               /\ stopCtx'.handle # NoProc
               /\ stopCtx'.sent = <<"terminate">>
       /\ (stopCtx.at # "idle" /\ stopCtx'.at # "idle" /\ stopCtx'.sent # stopCtx.sent)
            => /\ stopCtx.at = "wait"
               /\ stopCtx.sent = <<"terminate">>
               /\ stopCtx'.sent = <<"terminate", "kill">>
               /\ qstate[stopCtx.handle] \in AliveStates
               /\ stopCtx'.at = "cleanup"
       /\ (stopCtx.at # "idle" /\ stopCtx'.at = "idle")
            => /\ op' = <<"stop_plugin", stopCtx.plugin>>
               /\ result' = "True"
               /\ stopCtx.sent \in {<<"terminate">>, <<"terminate", "kill">>}
               /\ qstate'[stopCtx.handle] = "NotRunning"
               /\ processes'[stopCtx.plugin] = NoProc
               /\ stopCtx.plugin \notin process_info'
               /\ stopCtx.plugin \notin starting_processes'
               /\ stopCtx.plugin \notin stopping_processes'
      ]_vars

\* stop_plugin has returned true for a plugin that was tracked and the plugin
\* has no entry left
C12_Witness ==
    \E p \in Plugins :
        /\ op = <<"stop_plugin", p>> /\ result = "True"
        /\ Absent(p)
        /\ \A h \in Handles : qstate[h] = "NotRunning"

(***************************************************************************)
(* DependencyManager.sync_dependencies_with_uv: the manifest files of one  *)
(* environment and the steps of one call.  Every file operation is a step, *)
(* so that the states a concurrent reader can observe are states of the    *)
(* model.                                                                  *)
(***************************************************************************)
\* a path that does not exist
AbsentFile == [exists |-> FALSE, content |-> <<>>]
FileOf(c) == [exists |-> TRUE, content |-> c]

\* resolved_deps of a call: package name and version specifier, in dict order
ResolvedInputs ==
    { <<>>,
      << <<"requests", ">=2.0.0">> >>,
      << <<"requests", "">> >>,
      << <<"requests", ">=2.5.0">>, <<"psutil", "">> >> }

\* DependencyManager._generate_pyproject_content: the fixed header and footer
\* around one quoted line per package, name followed by its specifier, or the
\* bare name when the specifier is empty
GeneratePyprojectContent(resolved) ==
    << <<"[build-system]">>, <<"[project]">> >>
      \o [i \in 1..Len(resolved) |->
            IF resolved[i][2] # ""
            THEN <<resolved[i][1], resolved[i][2]>>
            ELSE <<resolved[i][1]>>]
      \o << <<"[tool.hatch.build.targets.wheel]">> >>

\* a manifest that was not written by this program
ForeignContent == << <<"[project]">>, <<"hand", "==1.0.0">> >>

\* the manifests an environment can hold before a call
InitialManifests ==
    {AbsentFile, FileOf(ForeignContent)}
      \cup {FileOf(GeneratePyprojectContent(r)) : r \in ResolvedInputs}

\* outcomes of subprocess.run(["uv", "sync", ...], timeout=300)
SyncOutcomes == {"ok", "nonzero", "timeout", "exception"}

\* "if path.exists(): path.unlink()" that leaves the file in place
UnlinkIfExists_Keeps(f) == f

\* "if path.exists(): path.unlink()"
UnlinkIfExists(f) == AbsentFile

\* shutil.copy2(src, dst): the content of dst after the copy
Copy2(src) == src

SyncSetPc(pc) ==
    /\ syncPc' = pc
    /\ syncActive' = IF pc = "idle" THEN syncActive - 1 ELSE syncActive
    /\ UNCHANGED <<pythonExists, syncArg, syncPre, supVars, resVars, brVars, regVars, envVars, utilVars>>

\* the test of line 305 taken as passed whatever the disk holds
PythonPathExists_Always == TRUE

\* line 305: python_path.exists(), python_path being the interpreter path that
\* get_environment_python_path builds for the environment
PythonPathExists == pythonExists

\* lines 302-308: the call begins; it fails fast when the interpreter is absent
SyncBegin(resolved) ==
    /\ syncArg' = resolved
    /\ syncPre' = live
    /\ syncOutcome' = "none"
    /\ syncEmitted' = <<>>
    /\ IF PythonPathExists
       THEN syncPc' = "backup" /\ syncResult' = "none" /\ syncActive' = syncActive + 1
       ELSE syncPc' = syncPc /\ syncResult' = "False" /\ syncActive' = syncActive
    /\ UNCHANGED <<live, temp, backup, pythonExists>>

\* sync_dependencies_with_uv called while no other call is in progress
SyncCall(resolved) ==
    /\ syncPc = "idle"
    /\ SyncBegin(resolved)
    /\ UNCHANGED <<supVars, resVars, brVars, regVars, envVars, utilVars>>

\* lines 315-319: back up the live manifest if there is one
SyncBackup ==
    /\ syncPc = "backup"
    /\ backup' = IF live.exists THEN Copy2(live) ELSE backup
    /\ SyncSetPc("write_temp")
    /\ UNCHANGED <<live, temp, syncOutcome, syncEmitted, syncResult>>

\* lines 321-328: generate the new manifest and write it to the temporary path
\* open(temp, 'w') can raise (directory not writable, disk full): the handler
\* of Exception at lines 401-409 then takes over
SyncWriteTemp(raises) ==
    /\ syncPc = "write_temp"
    /\ IF raises
       THEN SyncSetPc("except_cleanup") /\ UNCHANGED temp
       ELSE SyncSetPc("run") /\ temp' = FileOf(GeneratePyprojectContent(syncArg))
    /\ UNCHANGED <<live, backup, syncOutcome, syncEmitted, syncResult>>

\* lines 337-352: the command is ["uv", "sync", "--python", python_path,
\* "--project", env_path] run with cwd = env_path; the path of the temporary
\* file is not part of it, and the manifest of the project env_path is the file
\* env_path/pyproject.toml
UvSyncProjectManifest == live

\* lines 330-352: dependencySyncStarted, then the external tool runs
SyncRun(outcome) ==
    /\ syncPc = "run"
    /\ syncOutcome' = outcome
    /\ syncEmitted' = Append(syncEmitted, <<"sync_started">>)
    /\ SyncSetPc(CASE outcome = "ok" -> "replace_unlink"
                   [] outcome = "nonzero" -> "restore"
                   [] OTHER -> "except_cleanup")
    /\ UNCHANGED <<live, temp, backup, syncResult>>

\* lines 359-360: delete the live manifest; the unlink can raise
SyncReplaceUnlink(raises) ==
    /\ syncPc = "replace_unlink"
    /\ IF ~live.exists
       THEN ~raises /\ SyncSetPc("replace_rename") /\ UNCHANGED live
       ELSE IF raises
            THEN SyncSetPc("except_cleanup") /\ UNCHANGED live
            ELSE SyncSetPc("replace_rename") /\ live' = AbsentFile
    /\ UNCHANGED <<temp, backup, syncOutcome, syncEmitted, syncResult>>

\* line 361: rename the temporary file to the live path; the rename can raise
SyncReplaceRename(raises) ==
    /\ syncPc = "replace_rename"
    /\ IF raises
       THEN SyncSetPc("except_cleanup") /\ UNCHANGED <<live, temp>>
       ELSE SyncSetPc("replace_done") /\ live' = temp /\ temp' = AbsentFile
    /\ UNCHANGED <<backup, syncOutcome, syncEmitted, syncResult>>

\* lines 364-370: delete the backup, dependencySyncCompleted(True), return True
SyncReplaceDone ==
    /\ syncPc = "replace_done"
    /\ backup' = UnlinkIfExists(backup)
    /\ syncEmitted' = Append(syncEmitted, <<"sync_completed", "True">>)
    /\ syncResult' = "True"
    /\ SyncSetPc("idle")
    /\ UNCHANGED <<live, temp, syncOutcome>>

\* lines 376-379: non-zero exit: restore the live manifest from the backup
SyncRestore ==
    /\ syncPc = "restore"
    /\ live' = IF backup.exists THEN Copy2(backup) ELSE live
    /\ SyncSetPc("fail_cleanup")
    /\ UNCHANGED <<temp, backup, syncOutcome, syncEmitted, syncResult>>

\* lines 381-390: delete temp and backup, dependencySyncCompleted(False), return False
SyncFailCleanup ==
    /\ syncPc = "fail_cleanup"
    /\ temp' = UnlinkIfExists(temp)
    /\ backup' = UnlinkIfExists(backup)
    /\ syncEmitted' = Append(syncEmitted, <<"sync_completed", "False">>)
    /\ syncResult' = "False"
    /\ SyncSetPc("idle")
    /\ UNCHANGED <<live, syncOutcome>>

\* lines 392-409: the handlers of TimeoutExpired and of Exception: delete temp
\* and backup, dependencySyncCompleted(False), return False
SyncExceptCleanup ==
    /\ syncPc = "except_cleanup"
    /\ temp' = UnlinkIfExists(temp)
    /\ backup' = UnlinkIfExists(backup)
    /\ syncEmitted' = Append(syncEmitted, <<"sync_completed", "False">>)
    /\ syncResult' = "False"
    /\ SyncSetPc("idle")
    /\ UNCHANGED <<live, syncOutcome>>

SyncInit ==
    /\ SupInit
    /\ UtilInitIdle
    /\ ResInitIdle
    /\ BrInitIdle
    /\ live \in InitialManifests
    /\ temp = AbsentFile
    /\ backup = AbsentFile
    /\ pythonExists \in BOOLEAN
    /\ syncPc = "idle"
    /\ syncArg = <<>>
    /\ syncPre = AbsentFile
    /\ syncOutcome = "none"
    /\ syncEmitted = <<>>
    /\ syncResult = "none"
    /\ syncActive = 0

SyncNext ==
    \/ \E r \in ResolvedInputs : SyncCall(r)
    \/ SyncBackup
    \/ \E x \in BOOLEAN : SyncWriteTemp(x)
    \/ \E o \in SyncOutcomes : SyncRun(o)
    \/ \E x \in BOOLEAN : SyncReplaceUnlink(x)
    \/ \E x \in BOOLEAN : SyncReplaceRename(x)
    \/ SyncReplaceDone
    \/ SyncRestore
    \/ SyncFailCleanup
    \/ SyncExceptCleanup

SyncSpec == SyncInit /\ [][SyncNext]_vars

(***************************************************************************)
(* Properties of the sync protocol.                                        *)
(***************************************************************************)
\* the call has returned
SyncReturned == syncPc = "idle" /\ syncResult # "none"
NewManifest == FileOf(GeneratePyprojectContent(syncArg))

\* C3: when the external sync call fails (non-zero exit, timeout or exception),
\* after the call the live manifest is what it was before the call, neither the
\* temp file nor the backup remains, and the call reports failure
C3_FailureRestoresManifest ==
    (SyncReturned /\ syncOutcome \in {"nonzero", "timeout", "exception"})
      => /\ live = syncPre
         /\ ~temp.exists
         /\ ~backup.exists
         /\ syncResult = "False"
         /\ syncEmitted = << <<"sync_started">>, <<"sync_completed", "False">> >>

\* a call on an environment with a manifest has returned after the tool timed
\* out, having asked for a different manifest
C3_Witness ==
    /\ SyncReturned /\ syncOutcome = "timeout"
    /\ syncPre.exists /\ NewManifest # syncPre
    /\ live = syncPre

\* C4: when the external sync call exits with code 0, after the call the live
\* manifest is the newly generated content, neither the temp file nor the backup
\* remains, and the call returns true
C4_SuccessInstallsNewManifest ==
    (SyncReturned /\ syncOutcome = "ok")
      => /\ live = NewManifest
         /\ ~temp.exists
         /\ ~backup.exists
         /\ syncResult = "True"

\* C5: for an environment that had a live manifest before the sync, in every
\* state during or after the call the live path holds the complete pre-sync
\* content or the complete new content
C5_ManifestNeverTorn ==
    ((syncPc # "idle" \/ syncResult # "none") /\ syncPre.exists)
      => (live = syncPre \/ live = NewManifest)

(***************************************************************************)
(* VersionResolver and DependencyManager.resolve_dependencies: pure        *)
(* functions over version specifiers.  A specifier string is the sequence  *)
(* of its comma-separated clauses, a clause being a comparison operator    *)
(* and the release numbers of its version, as many as were written.        *)
(***************************************************************************)
Clause(o, v) == [op |-> o, v |-> v]

\* the specifier strings of the model
Spec_GE_1_0_0 == << Clause(">=", <<1, 0, 0>>) >>
Spec_GE_2_0_0 == << Clause(">=", <<2, 0, 0>>) >>
Spec_GE_1_5_0 == << Clause(">=", <<1, 5, 0>>) >>
Spec_GE_2_5_0 == << Clause(">=", <<2, 5, 0>>) >>
Spec_GE_1_100_0 == << Clause(">=", <<1, 100, 0>>) >>
Spec_GE_1_5 == << Clause(">=", <<1, 5>>) >>
Spec_GE_2_0 == << Clause(">=", <<2, 0>>) >>
Spec_LT_1_0 == << Clause("<", <<1, 0>>) >>
Spec_GE_1_0_LT_2_0 == << Clause(">=", <<1, 0>>), Clause("<", <<2, 0>>) >>
\* a bare package name has the empty specifier
Spec_Bare == <<>>
\* "=>1.0", which SpecifierSet rejects
Spec_Invalid == << Clause("=>", <<1, 0>>) >>

Specifiers ==
    {Spec_GE_1_0_0, Spec_GE_2_0_0, Spec_GE_1_5_0, Spec_GE_2_5_0, Spec_GE_1_100_0,
     Spec_GE_1_5, Spec_GE_2_0, Spec_LT_1_0, Spec_GE_1_0_LT_2_0, Spec_Bare,
     Spec_Invalid}

\* Python's None where a specifier is expected
None == << Clause("None", <<>>) >>

\* class DependencyInfo
DependencyInfo(name, version_spec, source) ==
    [name |-> name, version_spec |-> version_spec, source |-> source]

\* the operators packaging's SpecifierSet accepts
ValidOps == {">=", ">", "==", "<=", "<", "!=", "~="}

\* specifiers.SpecifierSet(version_spec) does not raise
SpecifierSetParses(version_spec) ==
    \A i \in DOMAIN version_spec : version_spec[i].op \in ValidOps

\* "x in version_spec" on the text of one clause: x is a substring of its operator
OpContains(o, x) ==
    \/ o = x
    \/ o = ">=" /\ x = ">"
    \/ o = "<=" /\ x = "<"
    \/ o = "=>" /\ x = ">"

\* the order in which _get_version_priority looks for an operator
OpOrder == <<">=", ">", "==", "<=", "<">>

HasOp(version_spec, x) == \E i \in DOMAIN version_spec : OpContains(version_spec[i].op, x)

\* ver.major, ver.minor, ver.micro of packaging.version
Major(v) == IF Len(v) >= 1 THEN v[1] ELSE 0
Minor(v) == IF Len(v) >= 2 THEN v[2] ELSE 0
Micro(v) == IF Len(v) >= 3 THEN v[3] ELSE 0

\* VersionResolver._get_version_priority: the text after the first occurrence of
\* the first operator found, up to its next occurrence, is parsed as a version;
\* it is one only when the clause it starts is the last of the string, anything
\* else gives 0
GetVersionPriority(version_spec) ==
    IF \A k \in DOMAIN OpOrder : ~HasOp(version_spec, OpOrder[k]) THEN 0
    ELSE LET k == CHOOSE k \in DOMAIN OpOrder :
                      /\ HasOp(version_spec, OpOrder[k])
                      /\ \A j \in 1..(k - 1) : ~HasOp(version_spec, OpOrder[j])
             i == CHOOSE i \in DOMAIN version_spec :
                      /\ OpContains(version_spec[i].op, OpOrder[k])
                      /\ \A j \in 1..(i - 1) : ~OpContains(version_spec[j].op, OpOrder[k])
             ver == version_spec[i].v
         IN  IF i = Len(version_spec)
             THEN Major(ver) * 10000 + Minor(ver) * 100 + Micro(ver)
             ELSE 0

ParsesDep(dep) == SpecifierSetParses(dep.version_spec)

\* a selection that rewrites the chosen specifier with a three-part version
MaxByPriority_Normalized(version_specs) ==
    LET i == CHOOSE i \in DOMAIN version_specs :
                 /\ \A j \in DOMAIN version_specs :
                        GetVersionPriority(version_specs[j].version_spec)
                          <= GetVersionPriority(version_specs[i].version_spec)
                 /\ \A j \in 1..(i - 1) :
                        GetVersionPriority(version_specs[j].version_spec)
                          < GetVersionPriority(version_specs[i].version_spec)
        chosen == version_specs[i].version_spec
    IN  [k \in DOMAIN chosen |->
            Clause(chosen[k].op,
                   <<Major(chosen[k].v), Minor(chosen[k].v), Micro(chosen[k].v)>>)]

\* max(version_specs, key=...): the first element with the greatest key
MaxByPriority(version_specs) ==
    LET i == CHOOSE i \in DOMAIN version_specs :
                 /\ \A j \in DOMAIN version_specs :
                        GetVersionPriority(version_specs[j].version_spec)
                          <= GetVersionPriority(version_specs[i].version_spec)
                 /\ \A j \in 1..(i - 1) :
                        GetVersionPriority(version_specs[j].version_spec)
                          < GetVersionPriority(version_specs[i].version_spec)
    IN  version_specs[i].version_spec

\* a resolver that falls back to the first constraint when none can be parsed
ResolveVersionConflict_FirstWhenNoneParses(deps) ==
    IF Len(deps) = 0 THEN None
    ELSE IF Len(deps) = 1 THEN deps[1].version_spec
    ELSE LET version_specs == SelectSeq(deps, ParsesDep)
         IN  IF Len(version_specs) = 0 THEN deps[1].version_spec
             ELSE MaxByPriority(version_specs)

\* VersionResolver.resolve_version_conflict
ResolveVersionConflict(deps) ==
    IF Len(deps) = 0 THEN None
    ELSE IF Len(deps) = 1 THEN deps[1].version_spec
    ELSE LET version_specs == SelectSeq(deps, ParsesDep)
         IN  IF Len(version_specs) = 0 THEN None
             ELSE MaxByPriority(version_specs)

\* spec1 & spec2: the specifier set holding the clauses of both
SpecifierSetAnd(spec1, spec2) ==
    {spec1[i] : i \in DOMAIN spec1} \cup {spec2[i] : i \in DOMAIN spec2}

\* VersionResolver.is_compatible: bool() of a SpecifierSet is len() > 0
IsCompatible(version_spec1, version_spec2) ==
    IF SpecifierSetParses(version_spec1) /\ SpecifierSetParses(version_spec2)
    THEN Cardinality(SpecifierSetAnd(version_spec1, version_spec2)) > 0
    ELSE FALSE

\* the dependency lists read from the plugin directories, one after the other
RECURSIVE Flatten(_)
Flatten(lists) ==
    IF Len(lists) = 0 THEN <<>> ELSE Head(lists) \o Flatten(Tail(lists))

\* DependencyManager.collect_all_dependencies, lines 255-258: the dict as the
\* sequence of its items in insertion order
RECURSIVE CollectInto(_, _)
CollectInto(dependencies_map, deps) ==
    IF Len(deps) = 0 THEN dependencies_map
    ELSE LET dep == Head(deps)
             known == {i \in DOMAIN dependencies_map : dependencies_map[i].name = dep.name}
         IN  CollectInto(
                 IF known = {}
                 THEN Append(dependencies_map, [name |-> dep.name, deps |-> <<dep>>])
                 ELSE [i \in DOMAIN dependencies_map |->
                          IF i \in known
                          THEN [dependencies_map[i] EXCEPT !.deps = Append(@, dep)]
                          ELSE dependencies_map[i]],
                 Tail(deps))

\* DependencyManager.collect_all_dependencies
CollectAllDependencies(manifests) == CollectInto(<<>>, Flatten(manifests))

\* "if resolved_version:" is false for None and for the empty string
Truthy(resolved_version) == resolved_version # None /\ resolved_version # <<>>

\* DependencyManager.resolve_dependencies, lines 267-286, over the items of
\* all_deps: the resolved dict and the dependencyConflictResolved signals
RECURSIVE ResolveItems(_, _)
ResolveItems(all_deps, acc) ==
    IF Len(all_deps) = 0 THEN acc
    ELSE LET item == Head(all_deps)
             resolved_version == ResolveVersionConflict(item.deps)
             acc1 ==
                 IF Len(item.deps) = 1
                 THEN [acc EXCEPT !.resolved =
                          Append(@, [name |-> item.name,
                                     version_spec |-> item.deps[1].version_spec])]
                 ELSE IF Truthy(resolved_version)
                 THEN [acc EXCEPT !.resolved =
                          Append(@, [name |-> item.name,
                                     version_spec |-> resolved_version]),
                                  !.emitted =
                          Append(@, [name |-> item.name,
                                     version_spec |-> resolved_version])]
                 ELSE \* line 286: logger.error, the package is left out
                      [acc EXCEPT !.errors = Append(@, item.name)]
         IN  ResolveItems(Tail(all_deps), acc1)

\* DependencyManager.resolve_dependencies
ResolveDependencies(manifests) ==
    ResolveItems(CollectAllDependencies(manifests),
                 [resolved |-> <<>>, emitted |-> <<>>, errors |-> <<>>])

(***************************************************************************)
(* The calls of the resolver: the arguments are drawn at the start, the    *)
(* call computes the result.                                               *)
(***************************************************************************)
Contributors == 1..MaxContributors

\* the lists of constraints on one package, one constraint per contributor
RECURSIVE ConstraintLists(_)
ConstraintLists(n) ==
    IF n = 0 THEN {<<>>}
    ELSE LET shorter == ConstraintLists(n - 1)
         IN  shorter \cup
             {Append(l, DependencyInfo("pkg", sp, Len(l) + 1)) :
                 l \in {x \in shorter : Len(x) = n - 1}, sp \in Specifiers}

\* the dependency lists one plugin directory can declare: "pkg" with any
\* specifier or not at all, then "lib" bare, with a lower bound, or not at all
ManifestsOf(source) ==
    {pkgPart \o libPart :
        pkgPart \in {<<>>} \cup {<<DependencyInfo("pkg", sp, source)>> : sp \in Specifiers},
        libPart \in {<<>>} \cup {<<DependencyInfo("lib", sp, source)>> :
                                    sp \in {Spec_Bare, Spec_GE_1_0_0}}}

\* the plugins directory: the dependency lists of its first n plugin directories
RECURSIVE PluginsDirs(_)
PluginsDirs(n) ==
    IF n = 0 THEN {<<>>}
    ELSE {Append(dirs, m) : dirs \in PluginsDirs(n - 1), m \in ManifestsOf(n)}

ResolveVersionConflictCall ==
    /\ resCall.fn = "resolve_version_conflict" /\ ~resCall.done
    /\ resCall' = [resCall EXCEPT !.done = TRUE]
    /\ resRet' = ResolveVersionConflict(resCall.args)
    /\ UNCHANGED <<supVars, syncVars, brVars, regVars, envVars, utilVars>>

IsCompatibleCall ==
    /\ resCall.fn = "is_compatible" /\ ~resCall.done
    /\ resCall' = [resCall EXCEPT !.done = TRUE]
    /\ resRet' = IsCompatible(resCall.args[1], resCall.args[2])
    /\ UNCHANGED <<supVars, syncVars, brVars, regVars, envVars, utilVars>>

ResolveDependenciesCall ==
    /\ resCall.fn = "resolve_dependencies" /\ ~resCall.done
    /\ resCall' = [resCall EXCEPT !.done = TRUE]
    /\ resRet' = ResolveDependencies(resCall.args)
    /\ UNCHANGED <<supVars, syncVars, brVars, regVars, envVars, utilVars>>

ResolverInit ==
    /\ SupInit
    /\ UtilInitIdle
    /\ SyncInitIdle
    /\ BrInitIdle
    /\ resRet = <<>>
    /\ \/ \E deps \in ConstraintLists(MaxContributors) :
              resCall = [fn |-> "resolve_version_conflict", args |-> deps, done |-> FALSE]
       \/ \E a \in Specifiers, b \in Specifiers :
              resCall = [fn |-> "is_compatible", args |-> <<a, b>>, done |-> FALSE]
       \/ \E dirs \in PluginsDirs(MaxContributors) :
              resCall = [fn |-> "resolve_dependencies", args |-> dirs, done |-> FALSE]

ResolverNext ==
    \/ ResolveVersionConflictCall
    \/ IsCompatibleCall
    \/ ResolveDependenciesCall

ResolverSpec == ResolverInit /\ [][ResolverNext]_vars

(***************************************************************************)
(* Properties of the resolver.                                             *)
(***************************************************************************)
Returned(fn) == resCall.fn = fn /\ resCall.done

\* C17: the resolver returns None or the specifier of one of the constraints it
\* was given; None for no constraint, and for exactly one constraint that
\* constraint's specifier
C17_ResolverSelects ==
    Returned("resolve_version_conflict")
      => /\ \/ resRet = None
            \/ \E i \in DOMAIN resCall.args : resCall.args[i].version_spec = resRet
         /\ Len(resCall.args) = 0 => resRet = None
         /\ Len(resCall.args) = 1 => resRet = resCall.args[1].version_spec

\* the resolver was given an unparsable constraint first and a parseable one
\* after it, and returned the parseable one
C17_Witness ==
    /\ Returned("resolve_version_conflict")
    /\ Len(resCall.args) >= 2
    /\ resCall.args[1].version_spec = Spec_Invalid
    /\ resCall.args[2].version_spec = Spec_GE_1_5
    /\ resRet = Spec_GE_1_5

\* the boundary version of a specifier: the operand of its first comparison
\* operator in the order >=, >, ==, <=, <
Boundary(version_spec) ==
    LET k == CHOOSE k \in DOMAIN OpOrder :
                 /\ \E i \in DOMAIN version_spec : version_spec[i].op = OpOrder[k]
                 /\ \A j \in 1..(k - 1) :
                        \A i \in DOMAIN version_spec : version_spec[i].op # OpOrder[j]
        i == CHOOSE i \in DOMAIN version_spec :
                 /\ version_spec[i].op = OpOrder[k]
                 /\ \A j \in 1..(i - 1) : version_spec[j].op # OpOrder[k]
    IN  <<Major(version_spec[i].v), Minor(version_spec[i].v), Micro(version_spec[i].v)>>

\* (major, minor, patch) in lexicographic order
VersionLess(u, v) ==
    \/ u[1] < v[1]
    \/ u[1] = v[1] /\ u[2] < v[2]
    \/ u[1] = v[1] /\ u[2] = v[2] /\ u[3] < v[3]

HasBoundary(version_spec) ==
    /\ SpecifierSetParses(version_spec)
    /\ \E i \in DOMAIN version_spec : \E k \in DOMAIN OpOrder : version_spec[i].op = OpOrder[k]

\* C18: for two or more parseable constraints the resolver returns the one with
\* the greatest boundary version in the lexicographic order of (major, minor,
\* patch), the first of them in input order when several are greatest
C18_HighestBoundaryWins ==
    (/\ Returned("resolve_version_conflict")
     /\ Len(resCall.args) >= 2
     /\ \A i \in DOMAIN resCall.args : HasBoundary(resCall.args[i].version_spec))
      => \E i \in DOMAIN resCall.args :
            /\ resRet = resCall.args[i].version_spec
            /\ \A j \in DOMAIN resCall.args :
                   ~VersionLess(Boundary(resCall.args[i].version_spec),
                                Boundary(resCall.args[j].version_spec))
            /\ \A j \in 1..(i - 1) :
                   VersionLess(Boundary(resCall.args[j].version_spec),
                               Boundary(resCall.args[i].version_spec))

\* the versions against which satisfiability is decided: every boundary of the
\* model's specifiers, a version below, between and above them
VersionUniverse ==
    {<<0, 5, 0>>, <<1, 0, 0>>, <<1, 2, 0>>, <<1, 5, 0>>, <<1, 7, 0>>, <<1, 100, 0>>,
     <<1, 200, 0>>, <<2, 0, 0>>, <<2, 2, 0>>, <<2, 5, 0>>, <<3, 0, 0>>}

\* a version satisfies one clause
SatisfiesClause(ver, c) ==
    LET b == <<Major(c.v), Minor(c.v), Micro(c.v)>>
    IN  CASE c.op = ">=" -> ~VersionLess(ver, b)
          [] c.op = ">"  -> VersionLess(b, ver)
          [] c.op = "==" -> ver = b
          [] c.op = "<=" -> ~VersionLess(b, ver)
          [] c.op = "<"  -> VersionLess(ver, b)
          [] OTHER -> FALSE

\* a version satisfies a specifier set: all of its clauses
Satisfies(ver, version_spec) ==
    \A i \in DOMAIN version_spec : SatisfiesClause(ver, version_spec[i])

\* C19: is_compatible(a, b) is true exactly when some version satisfies both a
\* and b
C19_CompatibleIffIntersect ==
    (/\ Returned("is_compatible")
     /\ SpecifierSetParses(resCall.args[1])
     /\ SpecifierSetParses(resCall.args[2]))
      => (resRet <=> \E ver \in VersionUniverse :
                        Satisfies(ver, resCall.args[1]) /\ Satisfies(ver, resCall.args[2]))

\* the constraints on a package over all plugin directories, in directory order
ConstraintsOn(package_name, manifests) ==
    SelectSeq(Flatten(manifests), LAMBDA dep : dep.name = package_name)

PackageNames == {"pkg", "lib"}

\* C20: resolve_dependencies maps a package with several contributors to the
\* resolver's selection over all their constraints and emits exactly one
\* conflict-resolved notification for it; it maps a package with one
\* contributor to that contributor's specifier, without a notification
C20_ResolvedSetAndNotifications ==
    Returned("resolve_dependencies")
      => \A n \in PackageNames :
            LET cs == ConstraintsOn(n, resCall.args)
                entries == {i \in DOMAIN resRet.resolved : resRet.resolved[i].name = n}
                notes == {i \in DOMAIN resRet.emitted : resRet.emitted[i].name = n}
            IN  /\ Len(cs) = 0 => entries = {} /\ notes = {}
                /\ Len(cs) = 1
                     => /\ Cardinality(entries) = 1
                        /\ \A i \in entries : resRet.resolved[i].version_spec = cs[1].version_spec
                        /\ notes = {}
                /\ (Len(cs) > 1 /\ ResolveVersionConflict(cs) # None)
                     => /\ Cardinality(entries) = 1
                        /\ \A i \in entries :
                               resRet.resolved[i].version_spec = ResolveVersionConflict(cs)
                        /\ Cardinality(notes) = 1
                        /\ \A i \in notes :
                               resRet.emitted[i].version_spec = ResolveVersionConflict(cs)

\* the plugin directories without their constraints on one package
WithoutPackage(package_name, manifests) ==
    [d \in DOMAIN manifests |->
        SelectSeq(manifests[d], LAMBDA dep : dep.name # package_name)]

\* a package that several plugin directories constrain, with no constraint that
\* can be parsed
Unresolvable(package_name, manifests) ==
    LET cs == ConstraintsOn(package_name, manifests)
    IN  /\ Len(cs) > 1
        /\ \A i \in DOMAIN cs : ~SpecifierSetParses(cs[i].version_spec)

\* C21: a package with several contributors none of whose constraints can be
\* parsed is left out of the resolved set, without a conflict-resolved
\* notification and with one error report; the other packages are resolved
\* exactly as they are without it, and the call returns that mapping
C21_UnresolvableOmitted ==
    Returned("resolve_dependencies")
      => \A n \in PackageNames :
            Unresolvable(n, resCall.args)
              => LET others == ResolveDependencies(WithoutPackage(n, resCall.args))
                 IN  /\ \A i \in DOMAIN resRet.resolved : resRet.resolved[i].name # n
                     /\ \A i \in DOMAIN resRet.emitted : resRet.emitted[i].name # n
                     /\ Cardinality({i \in DOMAIN resRet.errors : resRet.errors[i] = n}) = 1
                     /\ resRet.resolved = others.resolved
                     /\ resRet.emitted = others.emitted

\* two plugin directories give "pkg" an unparsable constraint and "lib" a lower
\* bound: the call has returned "lib" alone
C21_Witness ==
    /\ Returned("resolve_dependencies")
    /\ Unresolvable("pkg", resCall.args)
    /\ Len(ConstraintsOn("lib", resCall.args)) > 1
    /\ resRet.resolved = << [name |-> "lib", version_spec |-> Spec_GE_1_0_0] >>
    /\ resRet.errors = <<"pkg">>

(***************************************************************************)
(* PluginBridge.start_plugin and install_plugin_dependencies: slots that   *)
(* the main thread runs from its event loop.  The call of                  *)
(* sync_dependencies_with_uv inside them is made of the steps of the sync  *)
(* protocol above; the slot continues when the call has returned.          *)
(***************************************************************************)
\* a plugin name that no descriptor of the registry has
UnknownName == NumPlugins + 1
Names == Plugins \cup {UnknownName}

\* PluginProcessManager.is_plugin_running
IsPluginRunning(S, p) == InTable(S, p) /\ StateOf(S, p) = "Running"

\* the constraint on "requests" that the pyproject.toml of plugin p declares
PluginSpecs == <<Spec_GE_1_0_0, Spec_GE_2_0_0, Spec_GE_1_5_0>>

\* DependencyManager.read_plugin_dependencies for the directory of plugin p
ReadPluginDependencies(p) ==
    IF p \in hasDeps
    THEN <<DependencyInfo("requests", PluginSpecs[((p - 1) % Len(PluginSpecs)) + 1], p)>>
    ELSE <<>>

\* the plugins directory that collect_all_dependencies iterates
PluginsDirManifests == [p \in Plugins |-> ReadPluginDependencies(p)]

\* the text of a specifier, as the values of the resolved dict hold it
SpecText(version_spec) ==
    CASE version_spec = Spec_GE_1_0_0 -> ">=1.0.0"
      [] version_spec = Spec_GE_2_0_0 -> ">=2.0.0"
      [] version_spec = Spec_GE_1_5_0 -> ">=1.5.0"
      [] version_spec = Spec_GE_2_5_0 -> ">=2.5.0"
      [] version_spec = Spec_GE_1_100_0 -> ">=1.100.0"
      [] version_spec = Spec_GE_1_5 -> ">=1.5"
      [] version_spec = Spec_GE_2_0 -> ">=2.0"
      [] version_spec = Spec_LT_1_0 -> "<1.0"
      [] version_spec = Spec_GE_1_0_LT_2_0 -> ">=1.0,<2.0"
      [] version_spec = Spec_Invalid -> "=>1.0"
      [] OTHER -> ""

\* the resolved dict as sync_dependencies_with_uv receives it
ResolvedArg(resolved) ==
    [i \in DOMAIN resolved |-> <<resolved[i].name, SpecText(resolved[i].version_spec)>>]

\* a request made to the bridge
Request(fn, name) == [fn |-> fn, plugin |-> name]

\* the slot returns: the steps it ran, the pluginError it emitted, its result
BridgeReturn(req, steps, error, res) ==
    brCall' = [at |-> "idle", fn |-> req.fn, plugin |-> req.plugin, steps |-> steps,
               error |-> error, result |-> res]

\* the slot is inside sync_dependencies_with_uv
BridgeInSync(req, steps) ==
    brCall' = [at |-> "sync", fn |-> req.fn, plugin |-> req.plugin, steps |-> steps,
               error |-> "none", result |-> "none"]

\* start_plugin, lines 236-272: the interpreter check, then
\* PluginProcessManager.start_plugin and its result
BridgeSpawn(req, steps, outcome) ==
    LET p == req.plugin
    IN  IF ~pythonExists
        THEN /\ BridgeReturn(req, Append(steps, "env_check"), "env_missing", "False")
             /\ UNCHANGED supVars
        ELSE IF StartGuardRejects(Sup, p)
        THEN /\ SupAssign(EmitError(Sup, p, "already_running"), <<"start_plugin", p>>,
                          "False", IdleCtx)
             /\ BridgeReturn(req, steps \o <<"env_check", "spawn">>, "none", "False")
        ELSE /\ FreeHandles(Sup) # {}
             /\ SupAssign(StartPluginBody(Sup, p, outcome), <<"start_plugin", p>>,
                          IF outcome = "failed" THEN "False" ELSE "True", IdleCtx)
             /\ BridgeReturn(req, steps \o <<"env_check", "spawn">>, "none",
                             IF outcome = "failed" THEN "False" ELSE "True")

\* the timers that a spawn of this request arms stay within the bound
RoomForTimers(name) ==
    name \in Plugins => checkTimers[name] < MaxTimers /\ verifyTimers[name] < MaxTimers

\* PluginBridge.start_plugin, lines 186-235: the checks, the dependency read
\* and, for a plugin that declares dependencies, the call of the sync; for a
\* plugin that declares none, the rest of the slot
BridgeStartCall(req, entryExists, outcome) ==
    LET p == req.plugin
        checked == <<"lookup", "running_check", "entry_check">>
    IN  /\ Idle
        /\ req.fn = "start_plugin"
        /\ RoomForTimers(p)
        /\ IF p \notin Plugins
           THEN /\ BridgeReturn(req, <<"lookup">>, "plugin_not_found", "False")
                /\ UNCHANGED <<supVars, syncVars>>
           ELSE IF IsPluginRunning(Sup, p)
           THEN /\ BridgeReturn(req, <<"lookup", "running_check">>, "already_running",
                                "False")
                /\ UNCHANGED <<supVars, syncVars>>
           ELSE IF ~entryExists
           THEN /\ BridgeReturn(req, checked, "entry_missing", "False")
                /\ UNCHANGED <<supVars, syncVars>>
           ELSE IF ReadPluginDependencies(p) # <<>>
           THEN /\ SyncBegin(ResolvedArg(ResolveDependencies(PluginsDirManifests).resolved))
                /\ IF pythonExists
                   THEN BridgeInSync(req, checked \o <<"read_deps", "resolve", "sync">>)
                   ELSE BridgeReturn(req, checked \o <<"read_deps", "resolve", "sync",
                                                       "sync_false">>,
                                     "sync_failed", "False")
                /\ UNCHANGED supVars
           ELSE /\ BridgeSpawn(req, Append(checked, "read_deps"), outcome)
                /\ UNCHANGED syncVars
        /\ UNCHANGED <<resVars, hasDeps, regVars, envVars, utilVars>>

\* PluginBridge.start_plugin, lines 226-272, once the sync has returned
BridgeStartResume(outcome) ==
    LET req == Request(brCall.fn, brCall.plugin)
    IN  /\ brCall.at = "sync"
        /\ brCall.fn = "start_plugin"
        /\ syncPc = "idle"
        /\ IF syncResult = "False"
           THEN /\ BridgeReturn(req, Append(brCall.steps, "sync_false"), "sync_failed",
                                "False")
                /\ UNCHANGED supVars
           ELSE BridgeSpawn(req, Append(brCall.steps, "sync_true"), outcome)
        /\ UNCHANGED <<syncVars, resVars, hasDeps, posted, regVars, envVars, utilVars>>

\* PluginBridge.install_plugin_dependencies with
\* DependencyManager.install_dependencies_lazy, lines 522-535
BridgeInstallCall(req, dirExists) ==
    LET p == req.plugin
    IN  /\ Idle
        /\ req.fn = "install_plugin_dependencies"
        /\ IF p \notin Plugins \/ ~dirExists
           THEN /\ BridgeReturn(req, <<"path_check">>, "none", "False")
                /\ UNCHANGED syncVars
           ELSE IF ReadPluginDependencies(p) = <<>>
           THEN /\ BridgeReturn(req, <<"path_check", "read_deps">>, "none", "True")
                /\ UNCHANGED syncVars
           ELSE /\ SyncBegin(ResolvedArg(ResolveDependencies(PluginsDirManifests).resolved))
                /\ IF pythonExists
                   THEN BridgeInSync(req, <<"path_check", "read_deps", "resolve", "sync">>)
                   ELSE BridgeReturn(req, <<"path_check", "read_deps", "resolve", "sync",
                                            "sync_false">>, "none", "False")
        /\ UNCHANGED <<supVars, resVars, hasDeps, regVars, envVars, utilVars>>

\* install_dependencies_lazy, lines 538-546, once the sync has returned
BridgeInstallResume ==
    LET req == Request(brCall.fn, brCall.plugin)
    IN  /\ brCall.at = "sync"
        /\ brCall.fn = "install_plugin_dependencies"
        /\ syncPc = "idle"
        /\ IF syncResult = "False"
           THEN BridgeReturn(req, Append(brCall.steps, "sync_false"), "none", "False")
           ELSE BridgeReturn(req, Append(brCall.steps, "sync_true"), "none", "True")
        /\ UNCHANGED <<supVars, syncVars, resVars, hasDeps, posted, regVars, envVars, utilVars>>

\* PluginBridge.get_plugin_by_name: the first descriptor with the name, as a
\* sequence of one descriptor, or of none
GetPluginByName(info, name) ==
    LET found == {i \in DOMAIN info : info[i].name = name}
    IN  IF found = {} THEN <<>>
        ELSE <<info[CHOOSE i \in found : \A j \in found : i <= j]>>

\* PluginBridge.uninstall_plugin: an unknown name is rejected (lines 308-311);
\* for a known one line 315 reads self.running_processes, an attribute that
\* nothing assigns, and the AttributeError it raises is handled at lines
\* 361-363: pluginError and return False.  Lines 316-358 (stop, directory
\* removal, removal from the list) are not reached.
BridgeUninstallCall(req) ==
    /\ Idle
    /\ req.fn = "uninstall_plugin"
    /\ IF GetPluginByName(plugins_info, req.plugin) = <<>>
       THEN BridgeReturn(req, <<"lookup">>, "plugin_not_found", "False")
       ELSE BridgeReturn(req, <<"lookup", "running_check">>, "uninstall_exception",
                         "False")
    /\ UNCHANGED <<supVars, syncVars, resVars, hasDeps, posted, regVars, envVars, utilVars>>

\* the steps of sync_dependencies_with_uv between its call and its return
SyncSteps ==
    \/ SyncBackup
    \/ \E x \in BOOLEAN : SyncWriteTemp(x)
    \/ \E o \in SyncOutcomes : SyncRun(o)
    \/ \E x \in BOOLEAN : SyncReplaceUnlink(x)
    \/ \E x \in BOOLEAN : SyncReplaceRename(x)
    \/ SyncReplaceDone
    \/ SyncRestore
    \/ SyncFailCleanup
    \/ SyncExceptCleanup

\* the environment has no manifest yet, its interpreter exists or not, and any
\* set of plugins declares dependencies
BridgeInit ==
    /\ SupInit
    /\ UtilInitIdle
    /\ ResInitIdle
    /\ live = AbsentFile /\ temp = AbsentFile /\ backup = AbsentFile
    /\ pythonExists \in BOOLEAN
    /\ syncPc = "idle" /\ syncArg = <<>> /\ syncPre = AbsentFile
    /\ syncOutcome = "none" /\ syncEmitted = <<>> /\ syncResult = "none"
    /\ syncActive = 0
    /\ brCall = BrIdle
    /\ hasDeps \in SUBSET Plugins
    /\ posted = <<>>
    /\ RegInitScanned
    /\ EnvInitIdle

\* the requests of the user are dispatched as they are made; between them the
\* event loop dispatches the notifications of the processes and the timers
BridgeNext ==
    \/ \E n \in Names, e \in BOOLEAN, o \in StartOutcomes :
           BridgeStartCall(Request("start_plugin", n), e, o) /\ UNCHANGED posted
    \/ \E o \in StartOutcomes : BridgeStartResume(o)
    \/ \E n \in Names, d \in BOOLEAN :
           BridgeInstallCall(Request("install_plugin_dependencies", n), d)
             /\ UNCHANGED posted
    \/ BridgeInstallResume
    \/ \E n \in Names : BridgeUninstallCall(Request("uninstall_plugin", n))
    \/ SyncSteps
    \/ \E p \in Plugins : CheckTimerFire(p)
    \/ \E p \in Plugins : VerifyTimerFire(p)
    \/ \E h \in Handles, d \in BOOLEAN : OSStarted(h, d)
    \/ \E h \in Handles : OSStartFailed(h)
    \/ \E h \in Handles, c \in ExitCodes, s \in ExitStatuses : OSExited(h, c, s)
    \/ \E h \in Handles : OSErrorOther(h)

BridgeSpec == BridgeInit /\ [][BridgeNext]_vars

(***************************************************************************)
(* The requests of the user as events: a request is posted to the event    *)
(* queue of the main thread at any time, also while a slot is running, and *)
(* the event loop dispatches the oldest one when the main thread is in it. *)
(***************************************************************************)
\* the requests that sync the environment
SyncRequests ==
    {Request(fn, p) : fn \in {"start_plugin", "install_plugin_dependencies"},
                      p \in Plugins}

\* the user clicks: the request waits in the event queue
PostRequest(req) ==
    /\ Len(posted) < MaxPosted
    /\ posted' = Append(posted, req)
    /\ UNCHANGED <<supVars, syncVars, resVars, brCall, hasDeps, regVars, envVars, utilVars>>

\* the event loop dispatches the oldest request
DispatchStart(outcome) ==
    /\ posted # <<>>
    /\ BridgeStartCall(Head(posted), TRUE, outcome)
    /\ posted' = Tail(posted)

DispatchInstall ==
    /\ posted # <<>>
    /\ BridgeInstallCall(Head(posted), TRUE)
    /\ posted' = Tail(posted)

SerialInit ==
    /\ SupInit
    /\ UtilInitIdle
    /\ ResInitIdle
    /\ SyncInitIdle
    /\ BrInitIdle

SerialNext ==
    \/ \E req \in SyncRequests : PostRequest(req)
    \/ \E o \in StartOutcomes : DispatchStart(o)
    \/ DispatchInstall
    \/ \E o \in StartOutcomes : BridgeStartResume(o)
    \/ BridgeInstallResume
    \/ SyncSteps

SerialSpec == SerialInit /\ [][SerialNext]_vars

(***************************************************************************)
(* Properties of the start orchestration.                                  *)
(***************************************************************************)
\* the position of a step among the steps of the request, 0 when it was not run
StepAt(step) ==
    IF \E i \in DOMAIN brCall.steps : brCall.steps[i] = step
    THEN CHOOSE i \in DOMAIN brCall.steps : brCall.steps[i] = step
    ELSE 0

StartReturned == brCall.fn = "start_plugin" /\ brCall.at = "idle"

\* C13: in a start request the spawn is attempted only after the dependency
\* sync of the request has returned successfully; when the sync fails the
\* request returns false with the sync error, without a spawn and without a
\* change to the tables of the supervisor; an unknown plugin, a missing entry
\* file and a missing environment each end the request with their own error
\* before any later step
C13_SpawnOnlyAfterSync ==
    [][/\ (brCall'.fn = "start_plugin" /\ StepAt("spawn")' # 0)
            => /\ StepAt("sync_true")' # 0
               /\ StepAt("sync_true")' < StepAt("spawn")'
               /\ StepAt("sync_false")' = 0
       /\ (brCall'.fn = "start_plugin" /\ brCall'.at = "idle" /\ brCall' # brCall
             /\ StepAt("sync_false")' # 0)
            => /\ brCall'.result = "False"
               /\ brCall'.error = "sync_failed"
               /\ StepAt("spawn")' = 0
               /\ UNCHANGED <<processes, process_info, starting_processes, qstate>>
       /\ (StartReturned' /\ brCall'.error = "plugin_not_found")
            => brCall'.steps = <<"lookup">> /\ brCall'.result = "False"
       /\ (StartReturned' /\ brCall'.error = "entry_missing")
            => /\ brCall'.steps = <<"lookup", "running_check", "entry_check">>
               /\ brCall'.result = "False"
       /\ (StartReturned' /\ brCall'.error = "env_missing")
            => StepAt("spawn")' = 0 /\ brCall'.result = "False"
      ]_vars

\* C14: at most one call of sync_dependencies_with_uv is in progress at any
\* time, and it is the one the steps of the protocol belong to
C14_OneSyncInFlight ==
    /\ syncActive <= 1
    /\ syncActive = 1 <=> syncPc # "idle"

\* a sync is in progress and a request that will sync the same environment is
\* waiting in the event queue
C14_Witness ==
    /\ syncActive = 1 /\ syncPc = "run"
    /\ posted # <<>>
    /\ Head(posted) \in SyncRequests
    /\ Head(posted).plugin \in hasDeps

\* C15: while a dependency sync is in progress the main thread is in its event
\* loop, where it dispatches the notifications of the processes and the timers
C15_SyncOffMainLoop == syncPc # "idle" => Idle

\* the resolved set over the constraints of all plugins
MergedResolved ==
    IF Len(ConstraintsOn("requests", PluginsDirManifests)) = 0 THEN <<>>
    ELSE << <<"requests",
              SpecText(ResolveVersionConflict(
                           ConstraintsOn("requests", PluginsDirManifests)))>> >>

\* C16: a start request that reaches the spawn has first run, in the same
\* request, a sync whose resolved set is the merge of the constraints of all
\* plugins, whether the plugin being started declares dependencies or not
C16_StartResyncsEnvironment ==
    (brCall.fn = "start_plugin" /\ StepAt("spawn") # 0)
      => /\ StepAt("sync") # 0
         /\ StepAt("sync") < StepAt("spawn")
         /\ syncArg = MergedResolved

(***************************************************************************)
(* The Plugin Registry: PluginScanner reads the plugins directory in its    *)
(* own thread and hands the list of descriptors to the main thread, which   *)
(* makes it the registry list; uninstall_plugin removes a plugin.           *)
(***************************************************************************)
\* PluginScanner._read_plugin_info: the descriptor of one directory, none when
\* the [plugin-metadata] table is missing
ReadPluginInfo(dirs, d) ==
    IF dirs[d].metadata THEN <<Descriptor(dirs[d].name, d)>> ELSE <<>>

\* PluginScanner.run, lines 61-65, over the entries in the order iterdir()
\* yields them
RECURSIVE ScannerRun(_, _)
ScannerRun(dirs, order) ==
    IF Len(order) = 0 THEN <<>>
    ELSE (IF dirs[Head(order)].exists THEN ReadPluginInfo(dirs, Head(order)) ELSE <<>>)
           \o ScannerRun(dirs, Tail(order))

\* the orders in which iterdir() can yield the entries
IterdirOrders ==
    {o \in [1..Cardinality(Dirs) -> Dirs] : \A i, j \in DOMAIN o : i # j => o[i] # o[j]}

\* PluginBridge._update_plugin_status, lines 429-436: the positions of the
\* descriptors whose status the loop writes (it breaks at the first match)
UpdatedDescriptors(info, name) ==
    LET found == {i \in DOMAIN info : info[i].name = name}
    IN  IF found = {} THEN {}
        ELSE {CHOOSE i \in found : \A j \in found : i <= j}

\* what the entry named d can be: no directory, a directory without plugin
\* metadata, a directory whose metadata gives any name
EntriesOf(d) ==
    {NoDirEntry(d), DirEntry(TRUE, FALSE, d)} \cup {DirEntry(TRUE, TRUE, n) : n \in Dirs}

\* the contents the plugins directory can have
DirContents ==
    {dirs \in [Dirs -> UNION {EntriesOf(d) : d \in Dirs}] :
        \A d \in Dirs : dirs[d] \in EntriesOf(d)}

\* PluginScanner.run in the scanner thread: pluginsScanned is emitted to the
\* main thread
ScanRun(order) ==
    /\ Len(scanPending) < MaxScans
    /\ scanPending' = Append(scanPending, ScannerRun(pluginDirs, order))
    /\ UNCHANGED <<supVars, syncVars, resVars, brVars, envVars, utilVars, plugins_info, pluginDirs>>

\* PluginBridge._on_plugins_scanned
\* (self.plugins_info = plugins_info): the list is replaced by the descriptors
\* the scanner built, each with 'status': 'stopped' (_read_plugin_info, line 94),
\* so that the status held for every plugin name is stopped afterwards
OnPluginsScanned ==
    /\ Idle
    /\ scanPending # <<>>
    /\ plugins_info' = Head(scanPending)
    /\ scanPending' = Tail(scanPending)
    /\ status' = [p \in Plugins |-> "stopped"]
    /\ UNCHANGED <<processes, process_info, starting_processes, stopping_processes,
                   qstate, qname, connected, checkTimers, verifyTimers, stopCtx,
                   emitted, lastErr, lastExit, op, result>>
    /\ UNCHANGED <<syncVars, resVars, brVars, envVars, utilVars, pluginDirs>>

\* a plugin directory is deleted by something other than this program
DirRemovedOutside(d) ==
    /\ pluginDirs[d].exists
    /\ pluginDirs' = [pluginDirs EXCEPT ![d] = NoDirEntry(d)]
    /\ UNCHANGED <<supVars, syncVars, resVars, brVars, envVars, utilVars, plugins_info, scanPending>>

\* after construction the registry list is empty; the plugins directory holds
\* anything
RegistryInit ==
    /\ SupInit
    /\ UtilInitIdle
    /\ SyncInitIdle
    /\ ResInitIdle
    /\ brCall = BrIdle /\ hasDeps = Plugins /\ posted = <<>>
    /\ plugins_info = <<>>
    /\ pluginDirs \in DirContents
    /\ scanPending = <<>>
    /\ EnvInitIdle

RegistryNext ==
    \/ \E order \in IterdirOrders : ScanRun(order)
    \/ OnPluginsScanned
    \/ \E d \in Dirs : DirRemovedOutside(d)
    \/ \E n \in Dirs : BridgeUninstallCall(Request("uninstall_plugin", n))

RegistrySpec == RegistryInit /\ [][RegistryNext]_vars

(***************************************************************************)
(* Properties of the registry.                                             *)
(***************************************************************************)
\* an uninstall_plugin request for a plugin the registry knows returns in this
\* step
UninstallReturns(p) ==
    /\ brCall' # brCall
    /\ brCall'.fn = "uninstall_plugin" /\ brCall'.at = "idle"
    /\ brCall'.plugin = p
    /\ GetPluginByName(plugins_info, p) # <<>>

\* the directory of the first descriptor with the name
PathOf(info, p) == GetPluginByName(info, p)[1].path

\* C22: uninstall_plugin of a plugin that is running stops it before anything
\* else; when it returns false the plugins directory and the registry list are
\* as before; the directory is gone only when the supervisor no longer tracks
\* the plugin
C22_UninstallStopsFirst ==
    [][\A p \in Plugins :
          (UninstallReturns(p) /\ IsPluginRunning(Sup, p))
            => /\ StepAt("stop")' # 0
               /\ brCall'.result = "False" => UNCHANGED <<plugins_info, pluginDirs>>
               /\ ~pluginDirs'[PathOf(plugins_info, p)].exists => processes'[p] = NoProc
      ]_vars

\* C23: uninstall_plugin of a known plugin that is not running, whose directory
\* is gone when the call returns (removed by the call, or missing before it),
\* returns true and leaves no descriptor with that name in the registry list
C23_UninstallRemovesDescriptor ==
    [][\A p \in Dirs :
          (/\ UninstallReturns(p)
           /\ p \in Plugins => ~InTable(Sup, p)
           /\ ~pluginDirs'[PathOf(plugins_info, p)].exists)
            => /\ brCall'.result = "True"
               /\ GetPluginByName(plugins_info', p) = <<>>
      ]_vars

\* C24: the names of the descriptors in the registry list are pairwise
\* distinct, so that the lookup by the name of a descriptor returns that
\* descriptor and a status update by its name writes that descriptor
C24_DescriptorNamesDistinct ==
    \A i \in DOMAIN plugins_info :
        /\ \A j \in DOMAIN plugins_info : i # j => plugins_info[i].name # plugins_info[j].name
        /\ GetPluginByName(plugins_info, plugins_info[i].name) = <<plugins_info[i]>>
        /\ UpdatedDescriptors(plugins_info, plugins_info[i].name) = {i}

(***************************************************************************)
(* ConfigBridge and PythonEnvironmentWorker: the envs directory, the       *)
(* environment list kept in the configuration store and in the cache of    *)
(* the bridge, the construction of the bridge in the main thread and the   *)
(* run() of the worker in its own thread.                                  *)
(***************************************************************************)
\* ConfigBridge.currentEnvironmentName
CurrentEnvironmentName(store) ==
    IF store.current = NoEnv THEN DefaultEnvName ELSE store.current

\* PythonEnvironmentWorker.get_environment_info: the descriptor of one entry,
\* none when the directory or its interpreter is missing
GetEnvironmentInfo(dirs, store, name) ==
    IF dirs[name].exists /\ dirs[name].venv
    THEN <<EnvInfo(name, name = CurrentEnvironmentName(store))>>
    ELSE <<>>

\* ConfigBridge._update_environment_active_status, lines 915-919: the flags of
\* the cached list are rewritten and the list is put into the store
UpdateEnvironmentActiveStatus(st, active_env_name) ==
    LET list == [i \in DOMAIN st.cache.list |->
                    EnvInfo(st.cache.list[i].name,
                            st.cache.list[i].name = active_env_name)]
    IN  [st EXCEPT !.cache.list = list, !.store.scanned = list]

\* ConfigBridge._load_environments_from_config
LoadEnvironmentsFromConfig(st) ==
    IF st.store.scanned # <<>>
    THEN LET st1 == [st EXCEPT !.cache.list = st.store.scanned]
         IN  IF st.store.current # NoEnv
             THEN UpdateEnvironmentActiveStatus(st1, st.store.current)
             ELSE st1
    ELSE st

\* ConfigBridge._update_environments_cache with _save_environments_to_config
UpdateEnvironmentsCache(st, environments) ==
    [st EXCEPT !.cache = [set |-> TRUE, list |-> environments],
               !.store.scanned = environments,
               !.store.current = IF environments # <<>> /\ @ = NoEnv
                                 THEN environments[1].name ELSE @]

\* the cache and the store as one value
EnvState == [cache |-> envCache, store |-> envStore]

\* the orders in which iterdir() can yield the entries of the envs directory
EnvOrders ==
    {o \in [1..Cardinality(EnvNames) -> EnvNames] : \A i, j \in DOMAIN o : i # j => o[i] # o[j]}

\* list(self.environments_dir.iterdir()): the entries that exist, in that order
EnvDirList(dirs, order) == SelectSeq(order, LAMBDA n : dirs[n].exists)

\* PythonEnvironmentWorker.refresh_environments, lines 195-205, over the entries
\* still to visit
RECURSIVE RefreshEnvironmentsList(_, _, _)
RefreshEnvironmentsList(dirs, store, todo) ==
    IF Len(todo) = 0 THEN <<>>
    ELSE GetEnvironmentInfo(dirs, store, Head(todo))
           \o RefreshEnvironmentsList(dirs, store, Tail(todo))

\* ---- construction of ConfigBridge in the main thread ----
\* line 370: self.env_worker.start()
InitStartWorker ==
    /\ envMain = "start"
    /\ envMain' = "assign_cache"
    /\ envWorker' = [envWorker EXCEPT !.pc = "check"]
    /\ UNCHANGED <<plugVars, envDirs, envStore, envCache, envPending, envRequests, envCall>>

\* line 373: self._environments_cache = []
InitAssignCache ==
    /\ envMain = "assign_cache"
    /\ envMain' = "load"
    /\ envCache' = [set |-> TRUE, list |-> <<>>]
    /\ UNCHANGED <<plugVars, envDirs, envStore, envWorker, envPending, envRequests, envCall>>

\* line 379: self._load_environments_from_config(); the constructor returns
InitLoadCache ==
    /\ envMain = "load"
    /\ envMain' = "loop"
    /\ envCache' = LoadEnvironmentsFromConfig(EnvState).cache
    /\ envStore' = LoadEnvironmentsFromConfig(EnvState).store
    /\ UNCHANGED <<plugVars, envDirs, envWorker, envPending, envRequests, envCall>>

\* ---- PythonEnvironmentWorker.run in the worker thread ----
\* lines 56-62: the cache of the parent is read; when it holds environments
\* they are emitted, otherwise the scan begins with the listing of the directory
WorkerRunCheck(order) ==
    /\ envWorker.pc = "check"
    /\ Len(envPending) < MaxScans
    /\ IF envCache.set /\ envCache.list # <<>>
       THEN /\ envWorker' = [envWorker EXCEPT !.pc = "finished"]
            /\ envPending' = Append(envPending, envCache.list)
       ELSE /\ envWorker' = [pc |-> "scan", todo |-> EnvDirList(envDirs, order),
                             acc |-> <<>>]
            /\ UNCHANGED envPending
    /\ UNCHANGED <<plugVars, envDirs, envStore, envCache, envMain, envRequests, envCall>>

\* lines 197-201: one entry is visited
WorkerScanStep ==
    /\ envWorker.pc = "scan"
    /\ envWorker.todo # <<>>
    /\ envWorker' = [envWorker EXCEPT
                        !.todo = Tail(@),
                        !.acc = @ \o GetEnvironmentInfo(envDirs, envStore,
                                                        Head(envWorker.todo))]
    /\ UNCHANGED <<plugVars, envDirs, envStore, envCache, envMain, envPending, envRequests, envCall>>

\* line 211: environmentListUpdated is emitted to the main thread
WorkerScanEmit ==
    /\ envWorker.pc = "scan"
    /\ envWorker.todo = <<>>
    /\ Len(envPending) < MaxScans
    /\ envPending' = Append(envPending, envWorker.acc)
    /\ envWorker' = [envWorker EXCEPT !.pc = "finished"]
    /\ UNCHANGED <<plugVars, envDirs, envStore, envCache, envMain, envRequests, envCall>>

\* ---- slots that the event loop of the main thread runs ----
\* ConfigBridge._update_environments_cache for a queued environmentListUpdated
OnEnvironmentListUpdated ==
    /\ envMain = "loop"
    /\ envPending # <<>>
    /\ envCache' = UpdateEnvironmentsCache(EnvState, Head(envPending)).cache
    /\ envStore' = UpdateEnvironmentsCache(EnvState, Head(envPending)).store
    /\ envPending' = Tail(envPending)
    /\ envCall' = [NoEnvCall EXCEPT !.fn = "_update_environments_cache"]
    /\ UNCHANGED <<plugVars, envDirs, envMain, envWorker, envRequests>>

\* ConfigBridge.refreshEnvironments: the cache is loaded from the store, then
\* refresh_environments runs in the calling thread and its emission reaches
\* _update_environments_cache at once
RefreshEnvironments(order) ==
    LET st1 == LoadEnvironmentsFromConfig(EnvState)
        environments == RefreshEnvironmentsList(envDirs, st1.store,
                                                EnvDirList(envDirs, order))
        st2 == UpdateEnvironmentsCache(st1, environments)
    IN  /\ envMain = "loop"
        /\ envCache' = st2.cache
        /\ envStore' = st2.store
        /\ envCall' = [NoEnvCall EXCEPT !.fn = "refreshEnvironments", !.success = "True"]
        /\ UNCHANGED <<plugVars, envDirs, envMain, envWorker, envPending, envRequests>>

\* ConfigBridge.switchEnvironment
SwitchEnvironment(env_name) ==
    /\ envMain = "loop"
    /\ IF env_name = NoEnv
       THEN /\ envCall' = [NoEnvCall EXCEPT !.fn = "switchEnvironment", !.name = env_name,
                                            !.success = "False", !.msg = "name_empty"]
            /\ UNCHANGED <<envCache, envStore>>
       ELSE IF \A i \in DOMAIN envCache.list : envCache.list[i].name # env_name
       THEN /\ envCall' = [NoEnvCall EXCEPT !.fn = "switchEnvironment", !.name = env_name,
                                            !.success = "False", !.msg = "not_exists"]
            /\ UNCHANGED <<envCache, envStore>>
       ELSE LET st == UpdateEnvironmentActiveStatus(
                          [EnvState EXCEPT !.store.current = env_name], env_name)
            IN  /\ envCache' = st.cache
                /\ envStore' = st.store
                /\ envCall' = [NoEnvCall EXCEPT !.fn = "switchEnvironment",
                                                !.name = env_name, !.success = "True"]
    /\ UNCHANGED <<plugVars, envDirs, envMain, envWorker, envPending, envRequests>>

\* ConfigBridge.createEnvironment: the name is validated and the request is
\* emitted to the slot of the worker object
CreateEnvironmentSlot(env_name) ==
    /\ envMain = "loop"
    /\ IF env_name = NoEnv
       THEN /\ envCall' = [NoEnvCall EXCEPT !.fn = "createEnvironment", !.name = env_name,
                                            !.success = "False", !.msg = "name_empty"]
            /\ UNCHANGED envRequests
       ELSE /\ Len(envRequests) < MaxPosted
            /\ envRequests' = Append(envRequests, env_name)
            /\ envCall' = [NoEnvCall EXCEPT !.fn = "createEnvironment", !.name = env_name,
                                            !.success = "True"]
    /\ UNCHANGED <<plugVars, envDirs, envStore, envCache, envMain, envWorker, envPending>>

\* outcomes of the external calls of create_environment
CreateOutcomes ==
    {"uv_unavailable", "write_error", "timeout", "nonzero", "no_venv", "version_timeout",
     "ok"}

\* "if env_path.exists()" that is never true
EnvPathExists_Never(dirs, env_name) == FALSE

\* create_environment, line 73: env_path.exists()
EnvPathExists(dirs, env_name) == dirs[env_name].exists

\* PythonEnvironmentWorker.create_environment: the entry of the environment
\* after the call, the steps that ran, and the environmentCreated it emitted
CreateEnvironment(dirs, env_name, outcome) ==
    LET made == EnvDir(TRUE, dirs[env_name].manifest, dirs[env_name].venv)
        written == [made EXCEPT !.manifest = "generated"]
        built == [written EXCEPT !.venv = TRUE]
        Ret(entry, steps, success, msg) ==
            [entry |-> entry, steps |-> steps, success |-> success, msg |-> msg]
    IN  IF EnvPathExists(dirs, env_name)
        THEN Ret(dirs[env_name], <<"name_check">>, "False", "already_exists")
        ELSE IF outcome = "uv_unavailable"
        THEN Ret(made, <<"name_check", "mkdir", "uv_version">>, "False", "uv_unavailable")
        ELSE IF outcome = "write_error"
        THEN Ret(made, <<"name_check", "mkdir", "uv_version", "write_manifest">>,
                 "False", "unexpected_error")
        ELSE IF outcome \in {"timeout", "nonzero"}
        THEN Ret(written, <<"name_check", "mkdir", "uv_version", "write_manifest",
                            "uv_venv">>, "False", outcome)
        ELSE IF outcome = "no_venv"
        THEN Ret(written, <<"name_check", "mkdir", "uv_version", "write_manifest",
                            "uv_venv", "venv_check">>, "False", "venv_missing")
        ELSE IF outcome = "version_timeout"
        THEN Ret(built, <<"name_check", "mkdir", "uv_version", "write_manifest",
                          "uv_venv", "venv_check", "python_version">>,
                 "False", "version_timeout")
        ELSE Ret(built, <<"name_check", "mkdir", "uv_version", "write_manifest",
                          "uv_venv", "venv_check", "python_version">>,
                 "True", "created")

\* the queued createEnvironmentRequested reaches create_environment
CreateEnvironmentRun(outcome) ==
    LET env_name == Head(envRequests)
        r == CreateEnvironment(envDirs, env_name, outcome)
    IN  /\ envMain = "loop"
        /\ envRequests # <<>>
        /\ envRequests' = Tail(envRequests)
        /\ envDirs' = [envDirs EXCEPT ![env_name] = r.entry]
        /\ envCall' = [fn |-> "create_environment", name |-> env_name, steps |-> r.steps,
                       success |-> r.success, msg |-> r.msg]
        /\ UNCHANGED <<plugVars, envStore, envCache, envMain, envWorker, envPending>>

\* ConfigBridge.deleteEnvironment with PythonEnvironmentWorker.delete_environment
DeleteEnvironment(env_name) ==
    LET Report(success, msg) ==
            envCall' = [NoEnvCall EXCEPT !.fn = "deleteEnvironment", !.name = env_name,
                                         !.success = success, !.msg = msg]
    IN  /\ envMain = "loop"
        /\ IF env_name = NoEnv
           THEN Report("False", "name_empty") /\ UNCHANGED envDirs
           ELSE IF env_name = CurrentEnvironmentName(envStore)
           THEN Report("False", "is_current") /\ UNCHANGED envDirs
           ELSE IF ~envDirs[env_name].exists
           THEN Report("False", "not_exists") /\ UNCHANGED envDirs
           ELSE /\ Report("True", "deleted")
                /\ envDirs' = [envDirs EXCEPT ![env_name] = NoEnvDir]
        /\ UNCHANGED <<plugVars, envStore, envCache, envMain, envWorker, envPending, envRequests>>

\* the configurations a store written by this program can hold at startup
StoredConfigs ==
    {[current |-> NoEnv, scanned |-> <<>>]}
      \cup {[current |-> c,
             scanned |-> <<EnvInfo(DefaultEnvName, c = DefaultEnvName),
                           EnvInfo("dev", c = "dev")>>] : c \in EnvNames}

\* what an entry of the envs directory is at startup: nothing, a directory
\* without an environment in it, or a complete environment
StartupEnvDirs == [EnvNames -> {NoEnvDir, EnvDir(TRUE, "none", FALSE),
                                EnvDir(TRUE, "other", TRUE)}]

\* ConfigBridge.__init__ has reached line 370: the configuration is loaded, the
\* worker is created and not started, the cache attribute is not assigned
EnvInit ==
    /\ SupInit
    /\ UtilInitIdle
    /\ SyncInitIdle
    /\ ResInitIdle
    /\ brCall = BrIdle /\ hasDeps = Plugins /\ posted = <<>>
    /\ RegInitScanned
    /\ envDirs \in StartupEnvDirs
    /\ envStore \in StoredConfigs
    /\ envCache = [set |-> FALSE, list |-> <<>>]
    /\ envMain = "start"
    /\ envWorker = [pc |-> "not_started", todo |-> <<>>, acc |-> <<>>]
    /\ envPending = <<>>
    /\ envRequests = <<>>
    /\ envCall = NoEnvCall

EnvNext ==
    \/ InitStartWorker
    \/ InitAssignCache
    \/ InitLoadCache
    \/ \E order \in EnvOrders : WorkerRunCheck(order)
    \/ WorkerScanStep
    \/ WorkerScanEmit
    \/ OnEnvironmentListUpdated
    \/ \E order \in EnvOrders : RefreshEnvironments(order)
    \/ \E n \in EnvNames \cup {NoEnv} : SwitchEnvironment(n)
    \/ \E n \in EnvNames \cup {NoEnv} : CreateEnvironmentSlot(n)
    \/ \E o \in CreateOutcomes : CreateEnvironmentRun(o)
    \/ \E n \in EnvNames \cup {NoEnv} : DeleteEnvironment(n)

EnvSpec == EnvInit /\ [][EnvNext]_vars

\* creation and deletion of environments alone, in a running program
EnvCreateInit ==
    /\ SupInit
    /\ UtilInitIdle
    /\ SyncInitIdle
    /\ ResInitIdle
    /\ brCall = BrIdle /\ hasDeps = Plugins /\ posted = <<>>
    /\ RegInitScanned
    /\ envDirs \in StartupEnvDirs
    /\ envStore = [current |-> DefaultEnvName, scanned |-> <<>>]
    /\ envCache = [set |-> TRUE, list |-> <<>>]
    /\ envMain = "loop"
    /\ envWorker = [pc |-> "finished", todo |-> <<>>, acc |-> <<>>]
    /\ envPending = <<>>
    /\ envRequests = <<>>
    /\ envCall = NoEnvCall

EnvCreateNext ==
    \/ \E n \in EnvNames \cup {NoEnv} : CreateEnvironmentSlot(n)
    \/ \E o \in CreateOutcomes : CreateEnvironmentRun(o)
    \/ \E n \in EnvNames \cup {NoEnv} : DeleteEnvironment(n)

EnvCreateSpec == EnvCreateInit /\ [][EnvCreateNext]_vars

(***************************************************************************)
(* Properties of the environments.                                         *)
(***************************************************************************)
\* a queued creation request reaches create_environment in this step
CreateRuns ==
    /\ envRequests # <<>>
    /\ envRequests' = Tail(envRequests)
    /\ envCall'.fn = "create_environment"

\* the steps of create_environment that call an external program
ExternalSteps == {"uv_version", "uv_venv", "python_version"}

\* C25: a creation request for a name whose directory exists reports failure
\* with the "already exists" message, leaves the envs directory as it is and
\* calls no external program
C25_CreateExistingRejected ==
    [][(CreateRuns /\ envDirs[Head(envRequests)].exists)
         => /\ envCall'.success = "False"
            /\ envCall'.msg = "already_exists"
            /\ envDirs' = envDirs
            /\ \A i \in DOMAIN envCall'.steps : envCall'.steps[i] \notin ExternalSteps
      ]_vars

\* a creation request for the name of a complete environment has been rejected
C25_Witness ==
    /\ envCall.fn = "create_environment"
    /\ envCall.msg = "already_exists"
    /\ envDirs[envCall.name] = EnvDir(TRUE, "other", TRUE)

\* C26: at most one descriptor of the environment list is marked is_active
C26_AtMostOneActive ==
    Cardinality({i \in DOMAIN envCache.list : envCache.list[i].is_active}) <= 1

\* C27: when the store holds environments, the worker thread decides to scan
\* the envs directory only after the main thread has loaded the cache from the
\* store
C27_CacheLoadedBeforeRescan ==
    [][(envWorker.pc = "check" /\ envWorker'.pc = "scan" /\ envStore.scanned # <<>>)
         => envMain = "loop"
      ]_vars

(***************************************************************************)
(* Properties of the process table and of _cleanup_process.                *)
(***************************************************************************)
\* the signals e hold a processFinished or a processError for plugin p
PublishedTerminal(e, p) ==
    \E i \in DOMAIN e : e[i][1] \in {"processFinished", "processError"} /\ e[i][2] = p

\* C28: an entry of the process table and of the metadata table is created only
\* by start_plugin; an operation that publishes processFinished or processError
\* for a plugin leaves the plugin in neither table; and an entry is removed only
\* by an operation that publishes one of the two, or by stop_plugin
C28_EntryLifecycle ==
    [][\A p \in Plugins :
          /\ (processes[p] = NoProc /\ processes'[p] # NoProc) => op'[1] = "start_plugin"
          /\ (p \notin process_info /\ p \in process_info') => op'[1] = "start_plugin"
          /\ PublishedTerminal(emitted', p)
                => processes'[p] = NoProc /\ p \notin process_info'
          /\ (processes[p] # NoProc /\ processes'[p] = NoProc)
                => PublishedTerminal(emitted', p) \/ op'[1] = "stop_plugin"
          /\ (p \in process_info /\ p \notin process_info')
                => PublishedTerminal(emitted', p) \/ op'[1] = "stop_plugin"
      ]_vars

\* plugin p has no entry in the tables and the sets of supervisor state S
AbsentIn(S, p) ==
    /\ S.processes[p] = NoProc
    /\ p \notin S.process_info
    /\ p \notin S.starting_processes
    /\ p \notin S.stopping_processes

C30_ToolReadsNewManifest ==
    [][(syncPc = "run" /\ syncPc' # "run")
         => /\ UvSyncProjectManifest = FileOf(GeneratePyprojectContent(syncArg))
            /\ live = syncPre
      ]_vars

(***************************************************************************)
(* Properties of one sync call: fail-fast and the pairing of its signals.  *)
(***************************************************************************)
\* C31: a call of sync_dependencies_with_uv for an environment whose
\* interpreter is absent returns False in the same step: no backup and no
\* temporary file is made, the live manifest is untouched, the external tool is
\* not run, no signal is emitted and no further step of the call follows
C31_FailFastWithoutInterpreter ==
    [][(syncPc = "idle" /\ ~pythonExists)
         => /\ syncPc' = "idle"
            /\ syncResult' = "False"
            /\ live' = live /\ temp' = temp /\ backup' = backup
            /\ syncOutcome' = "none"
            /\ syncEmitted' = <<>>
            /\ syncActive' = syncActive
      ]_vars

\* a call with a non-empty resolved set has returned False for an environment
\* without interpreter that holds a live manifest
C31_Witness ==
    /\ SyncReturned /\ ~pythonExists
    /\ syncResult = "False" /\ syncOutcome = "none"
    /\ syncArg # <<>>
    /\ live.exists /\ ~temp.exists /\ ~backup.exists

\* C32: sync_started is emitted before the external tool runs, and a call that
\* has returned has emitted either nothing (it failed fast) or sync_started
\* followed by exactly one sync_completed carrying its return value;
\* sync_completed is never emitted without a sync_started before it, and on
\* success only after the new manifest is in place
C32_StartedCompletedPaired ==
    /\ syncOutcome # "none" => syncEmitted # <<>> /\ syncEmitted[1] = <<"sync_started">>
    /\ syncEmitted # <<>> => syncEmitted[1] = <<"sync_started">>
    /\ Len(syncEmitted) <= 2
    /\ SyncReturned
         => \/ syncEmitted = <<>> /\ ~pythonExists
            \/ syncEmitted = << <<"sync_started">>, <<"sync_completed", syncResult>> >>
    /\ (Len(syncEmitted) = 2 /\ syncResult = "True") => live = NewManifest

(***************************************************************************)
(* Properties of the delayed startup checks and of the bookkeeping.        *)
(***************************************************************************)
\* C34: a verification timer that fires while the plugin is in the
\* starting-set was armed for an earlier process of that name (the started
\* callback that arms it removes the name from the starting-set, and only a new
\* start_plugin puts it back): it emits no signal and leaves the published
\* status of the new process alone
C34_StaleTimerHasNoEffect ==
    [][\A p \in Plugins :
          (/\ op' = <<"verify_timer", p>>
           /\ verifyTimers'[p] < verifyTimers[p]
           /\ p \in starting_processes)
            => emitted' = <<>> /\ status' = status
      ]_vars

\* C35: between operations the process table and the metadata table hold the
\* same plugin names, and every name of the starting-set or of the stopping-set
\* is in the process table
C35_BookkeepingConsistent ==
    stopCtx.at = "idle"
      => /\ {p \in Plugins : processes[p] # NoProc} = process_info
         /\ starting_processes \subseteq process_info
         /\ stopping_processes \subseteq process_info

\* start_plugin has put a plugin into the metadata table and the starting-set,
\* the start has failed and the call has returned False with every entry gone
C35_Witness ==
    \E p \in Plugins :
        /\ op = <<"start_plugin", p>> /\ result = "False"
        /\ PublishedTerminal(emitted, p)
        /\ Absent(p)

(***************************************************************************)
(* PluginBridge.stop_plugin: the stop a user requests.                     *)
(***************************************************************************)
\* PluginBridge.stop_plugin, lines 286-291: False for a plugin that is not
\* running; otherwise PluginProcessManager.stop_plugin is entered, and the
\* status is set to stopped when it has returned True (StopFinish)
BridgeStopPlugin(p) ==
    /\ Idle
    /\ IF ~IsPluginRunning(Sup, p)
       THEN SupNext(Sup, <<"stop_plugin", p>>, "False", IdleCtx)
       ELSE SupNext([Sup EXCEPT !.stopping_processes = @ \cup {p}],
                    <<"stop_wait", p>>, "none",
                    [at |-> "wait", plugin |-> p, handle |-> processes[p],
                     sent |-> <<"terminate">>, bridge |-> TRUE])

\* the supervisor with the stops requested through the bridge
StopNext ==
    \/ \E p \in Plugins, o \in StartOutcomes : StartPlugin(p, o)
    \/ \E p \in Plugins : StopPluginCall(p)
    \/ \E p \in Plugins : BridgeStopPlugin(p)
    \/ \E d \in BOOLEAN : StopWaitStarted(d)
    \/ StopWaitStartFailed
    \/ \E c \in ExitCodes, s \in ExitStatuses : StopWaitExited(c, s)
    \/ \E c \in ExitCodes, d \in BOOLEAN : StopWaitKill(c, d)
    \/ StopFinish
    \/ \E p \in Plugins : CheckTimerFire(p)
    \/ \E p \in Plugins : VerifyTimerFire(p)
    \/ \E h \in Handles, d \in BOOLEAN : OSStarted(h, d)
    \/ \E h \in Handles : OSStartFailed(h)
    \/ \E h \in Handles, c \in ExitCodes, s \in ExitStatuses : OSExited(h, c, s)
    \/ \E h \in Handles : OSErrorOther(h)

StopSpec == Init /\ [][StopNext]_vars

\* C37: while a stop requested through the bridge is in progress, no status
\* error and no pluginError is published for the plugin, whatever the process
\* reports when it ends; and when the stop returns, the status is stopped
C37_UserStopNeverError ==
    [][(stopCtx.bridge /\ stopCtx.at # "idle")
         => /\ \A i \in DOMAIN emitted' :
                  /\ emitted'[i] # <<"pluginError", stopCtx.plugin>>
                  /\ emitted'[i] # <<"pluginStatusChanged", stopCtx.plugin, "error">>
            /\ stopCtx'.at = "idle" => status'[stopCtx.plugin] = "stopped"
      ]_vars

\* C38: a create_environment that fails after its name check has passed
\* leaves no directory of that name on disk
C38_FailedCreateLeavesNoDirectory ==
    [][(CreateRuns /\ ~envDirs[Head(envRequests)].exists /\ envCall'.success = "False")
         => ~envDirs'[Head(envRequests)].exists
      ]_vars

(***************************************************************************)
(* Properties of the key set of the resolved dependencies.                 *)
(***************************************************************************)
\* C39: every package of the resolved set is declared by some plugin directory,
\* and every declared package with a constraint that can be parsed is in the
\* resolved set; the empty specifier of a bare name is such a constraint
C39_ResolvedKeySet ==
    Returned("resolve_dependencies")
      => \A n \in PackageNames :
            LET cs == ConstraintsOn(n, resCall.args)
                present == \E i \in DOMAIN resRet.resolved : resRet.resolved[i].name = n
            IN  /\ present => Len(cs) > 0
                /\ (\E i \in DOMAIN cs : SpecifierSetParses(cs[i].version_spec)) => present

(***************************************************************************)
(* Rescans of the plugins directory while plugins run.                     *)
(***************************************************************************)
\* the supervisor together with refresh_plugins / scan_plugins
RescanNext ==
    \/ \E p \in Plugins, o \in StartOutcomes : StartPlugin(p, o)
    \/ \E p \in Plugins : StopPluginCall(p)
    \/ \E d \in BOOLEAN : StopWaitStarted(d)
    \/ StopWaitStartFailed
    \/ \E c \in ExitCodes, s \in ExitStatuses : StopWaitExited(c, s)
    \/ \E c \in ExitCodes, d \in BOOLEAN : StopWaitKill(c, d)
    \/ StopFinish
    \/ \E p \in Plugins : CheckTimerFire(p)
    \/ \E p \in Plugins : VerifyTimerFire(p)
    \/ \E h \in Handles, d \in BOOLEAN : OSStarted(h, d)
    \/ \E h \in Handles : OSStartFailed(h)
    \/ \E h \in Handles, c \in ExitCodes, s \in ExitStatuses : OSExited(h, c, s)
    \/ \E h \in Handles : OSErrorOther(h)
    \/ \E order \in IterdirOrders : ScanRun(order)
    \/ OnPluginsScanned

RescanSpec == Init /\ [][RescanNext]_vars

\* C36: the delivery of a scan result leaves the status of every plugin that
\* has a process in the supervisor's table as it was
C36_RescanKeepsStatus ==
    [][(scanPending # <<>> /\ scanPending' = Tail(scanPending))
         => \A p \in Plugins : processes[p] # NoProc => status'[p] = status[p]
      ]_vars

(***************************************************************************)
(* ExceptionHandler: the rate limit of handle_exception.                   *)
(***************************************************************************)
\* the pruning that forgets nothing
PruneTimestamps_KeepsAll(ts, now) == ts

\* lines 402-405: the timestamps younger than the window
PruneTimestamps(ts, now) ==
    SelectSeq(ts, LAMBDA t : now - t < WindowSeconds)

\* _check_exception_rate_limit: whether the exception may be processed, and the
\* timestamps it leaves
CheckExceptionRateLimit ==
    LET kept == PruneTimestamps(exception_timestamps, current_time)
    IN  IF Len(kept) >= max_exceptions_per_minute
        THEN [allowed |-> FALSE, stamps |-> kept]
        ELSE [allowed |-> TRUE, stamps |-> Append(kept, current_time)]

\* handle_exception(exception, context): returns at once when the limit is
\* reached; otherwise logs, emits exception_occurred and runs every callback
HandleException ==
    LET c == CheckExceptionRateLimit
    IN  /\ exception_timestamps' = c.stamps
        /\ processedAt' = IF c.allowed THEN Append(processedAt, current_time)
                          ELSE processedAt
        /\ lastHandled' = [called |-> TRUE, logged |-> c.allowed,
                           signalled |-> c.allowed,
                           callbacks |-> IF c.allowed THEN NumCallbacks ELSE 0,
                           warned |-> ~c.allowed]
        /\ UNCHANGED <<max_exceptions_per_minute, current_time>>
        /\ UNCHANGED <<config, backup_config, heap, config_file, cfgOp>>
        /\ UNCHANGED <<supVars, syncVars, resVars, brVars, regVars, envVars>>

\* time passes between two exceptions
ClockTick ==
    /\ current_time + TickSeconds <= MaxTime
    /\ current_time' = current_time + TickSeconds
    /\ lastHandled' = NotHandled
    /\ UNCHANGED <<exception_timestamps, max_exceptions_per_minute, processedAt>>
    /\ UNCHANGED <<config, backup_config, heap, config_file, cfgOp>>
    /\ UNCHANGED <<supVars, syncVars, resVars, brVars, regVars, envVars>>

\* the handler after start-up: set_max_exceptions_per_minute has set the limit
RateInit ==
    /\ SupInit
    /\ SyncInitIdle
    /\ ResInitIdle
    /\ BrInitIdle
    /\ CfgInitIdle
    /\ exception_timestamps = <<>>
    /\ max_exceptions_per_minute \in 1..MaxLimit
    /\ current_time = 0
    /\ processedAt = <<>>
    /\ lastHandled = NotHandled

RateNext ==
    \/ HandleException
    \/ ClockTick

RateSpec == RateInit /\ [][RateNext]_vars

\* the exceptions processed at a time t with from <= t < from + WindowSeconds
ProcessedInWindow(log, from) ==
    Cardinality({i \in DOMAIN log : from <= log[i] /\ log[i] < from + WindowSeconds})

\* the exceptions processed less than WindowSeconds before now
ProcessedRecently(log, now) ==
    Cardinality({i \in DOMAIN log : now - log[i] < WindowSeconds})

\* C33: a call of handle_exception processes the exception (log, signal, every
\* callback) when fewer than max_exceptions_per_minute exceptions were processed
\* in the last 60 seconds and drops it without running a callback otherwise,
\* and no 60-second window holds more than max_exceptions_per_minute
\* processed exceptions
C33_RateLimit ==
    [][lastHandled'.called
         => /\ IF ProcessedRecently(processedAt, current_time) >= max_exceptions_per_minute
               THEN /\ ~lastHandled'.logged /\ ~lastHandled'.signalled
                    /\ lastHandled'.callbacks = 0
                    /\ processedAt' = processedAt
               ELSE /\ lastHandled'.logged /\ lastHandled'.signalled
                    /\ lastHandled'.callbacks = NumCallbacks
                    /\ processedAt' = Append(processedAt, current_time)
            /\ \A i \in DOMAIN processedAt' :
                  ProcessedInWindow(processedAt', processedAt'[i])
                     <= max_exceptions_per_minute
      ]_vars

\* an exception was dropped because the window was full
C33_Witness ==
    /\ lastHandled.called /\ lastHandled.warned
    /\ ProcessedRecently(processedAt, current_time) >= max_exceptions_per_minute

(***************************************************************************)
(* ConfigManager: load_config, set, save_config, has_changes.  A section   *)
(* of the configuration is a dict object; dict.copy() copies the top level *)
(* only, so that two configurations can hold the same section object.      *)
(***************************************************************************)
\* the dict objects a configuration, the backup or the defaults refer to
Roots(top, bk) ==
    ({default_config[s] : s \in CfgSections}
        \cup {top[s] : s \in CfgSections}
        \cup {bk.d[s] : s \in CfgSections}) \ {NoRef}

\* the n-th of the objects in no use
NthFree(roots, n) ==
    LET free == Refs \ roots
    IN  CHOOSE r \in free : Cardinality({x \in free : x < r}) = n - 1

\* objects in no use hold nothing
Collect(h, roots) == [r \in Refs |-> IF r \in roots THEN h[r] ELSE EmptyDict]

SectionIndex(s) == IF s = "app" THEN 1 ELSE 2

\* the value of a configuration: what == compares and what toml.dump writes
Deep(top, h) ==
    [s \in CfgSections |-> IF top[s] = NoRef THEN [has |-> FALSE, d |-> EmptyDict]
                           ELSE [has |-> TRUE, d |-> h[top[s]]]]

\* has_changes(): self.config != self._backup_config
HasChangesOf(top, bk, h) == bk.none \/ Deep(top, h) # Deep(bk.d, h)
HasChanges == HasChangesOf(config, backup_config, heap)

\* _validate_config: app.name is a string; the other sections it reads
\* (environments, mirrors, plugins) are left as the defaults have them
ValidateConfig(top, h) == top["app"] # NoRef /\ h[top["app"]]["name"] # NoKey

\* _merge_configs for one section dict: default.copy(), then the loaded values
MergeDicts(d, loaded) == [k \in CfgKeys |-> IF loaded[k] # NoKey THEN loaded[k] ELSE d[k]]

\* the configuration files found at start-up
InitialConfigFiles ==
    {NoFile}
      \cup {[exists |-> TRUE,
             data |-> [s \in CfgSections |->
                          IF s \in ss THEN [has |-> TRUE, d |-> [k \in CfgKeys |-> v]]
                          ELSE [has |-> FALSE, d |-> EmptyDict]]] :
               ss \in (SUBSET CfgSections) \ {{}}, v \in CfgValues}

\* what the other components keep
CfgFrame ==
    /\ UNCHANGED <<exception_timestamps, max_exceptions_per_minute, current_time,
                   processedAt, lastHandled>>
    /\ UNCHANGED <<supVars, syncVars, resVars, brVars, regVars, envVars>>

\* the body of save_config; io_ok: the file could be written
SaveConfigAs(name, io_ok) ==
    IF ValidateConfig(config, heap) /\ io_ok
    THEN /\ config_file' = [exists |-> TRUE, data |-> Deep(config, heap)]
         /\ backup_config' = [none |-> FALSE, d |-> config]
         /\ heap' = Collect(heap, Roots(config, backup_config'))
         /\ cfgOp' = [name |-> name, changed |-> FALSE, ok |-> TRUE]
         /\ UNCHANGED config
    ELSE /\ cfgOp' = [name |-> name, changed |-> FALSE, ok |-> FALSE]
         /\ UNCHANGED <<config, backup_config, heap, config_file>>

\* save_config()
SaveConfig(io_ok) ==
    /\ SaveConfigAs("save_config", io_ok)
    /\ CfgFrame

\* auto_save_config(): the slot of the save timer
AutoSaveConfig(io_ok) ==
    /\ IF HasChanges
       THEN SaveConfigAs("auto_save_config", io_ok)
       ELSE /\ cfgOp' = [name |-> "auto_save_config", changed |-> FALSE, ok |-> FALSE]
            /\ UNCHANGED <<config, backup_config, heap, config_file>>
    /\ CfgFrame

\* load_config(); io_ok: the file could be written when there was none
LoadConfig(io_ok) ==
    LET keep == Roots(default_config, backup_config)
        loaded == config_file.data
        top == IF config_file.exists
               THEN [s \in CfgSections |->
                        IF loaded[s].has THEN NthFree(keep, SectionIndex(s))
                        ELSE default_config[s]]
               ELSE default_config
        \* the section objects made by toml.load and _merge_configs
        h == [r \in Refs |->
                IF config_file.exists /\ \E s \in CfgSections : loaded[s].has /\ top[s] = r
                THEN LET s == CHOOSE x \in CfgSections : loaded[x].has /\ top[x] = r
                     IN  IF default_config[s] # NoRef
                         THEN MergeDicts(heap[default_config[s]], loaded[s].d)
                         ELSE loaded[s].d
                ELSE heap[r]]
        valid == ValidateConfig(top, h)
    IN  /\ config' = top
        /\ config_file' = IF ~config_file.exists /\ valid /\ io_ok
                          THEN [exists |-> TRUE, data |-> Deep(top, h)]
                          ELSE config_file
        /\ backup_config' = IF valid \/ ~config_file.exists
                            THEN [none |-> FALSE, d |-> top] ELSE backup_config
        /\ heap' = Collect(h, Roots(top, backup_config'))
        /\ cfgOp' = [name |-> "load_config", changed |-> FALSE, ok |-> valid]
        /\ CfgFrame

\* set("<section>.<key>", value)
SetConfig(s, k, v) ==
    /\ IF config[s] = NoRef
       THEN LET r == NthFree(Roots(config, backup_config), 1)
            IN  /\ config' = [config EXCEPT ![s] = r]
                /\ heap' = [heap EXCEPT ![r] = [EmptyDict EXCEPT ![k] = v]]
                /\ cfgOp' = [name |-> "set", changed |-> TRUE, ok |-> TRUE]
       ELSE /\ heap' = [heap EXCEPT ![config[s]][k] = v]
            /\ cfgOp' = [name |-> "set", changed |-> heap[config[s]][k] # v, ok |-> TRUE]
            /\ UNCHANGED config
    /\ UNCHANGED <<backup_config, config_file>>
    /\ CfgFrame

ConfigInit ==
    /\ SupInit
    /\ SyncInitIdle
    /\ ResInitIdle
    /\ BrInitIdle
    /\ ExcInitIdle
    /\ config = [s \in CfgSections |-> NoRef]
    /\ backup_config = [none |-> TRUE, d |-> [s \in CfgSections |-> NoRef]]
    /\ heap = [r \in Refs |-> IF r = DefaultAppRef THEN DefaultAppDict ELSE EmptyDict]
    /\ config_file \in InitialConfigFiles
    /\ cfgOp = NoCfgOp

ConfigNext ==
    \/ \E io_ok \in BOOLEAN : LoadConfig(io_ok)
    \/ \E s \in CfgSections, k \in CfgKeys, v \in CfgValues : SetConfig(s, k, v)
    \/ \E io_ok \in BOOLEAN : SaveConfig(io_ok)
    \/ \E io_ok \in BOOLEAN : AutoSaveConfig(io_ok)

ConfigSpec == ConfigInit /\ [][ConfigNext]_vars

\* C40: a set on a dotted key that changes the stored value leaves has_changes()
\* true, and a successful save_config leaves it false
C40_SetMarksChanges ==
    [][/\ (cfgOp'.name = "set" /\ cfgOp'.changed)
            => HasChangesOf(config', backup_config', heap')
       /\ (cfgOp'.name = "save_config" /\ cfgOp'.ok)
            => ~HasChangesOf(config', backup_config', heap')
      ]_vars

=============================================================================
